---------------------------- MODULE Spec2Model ----------------------------
(***************************************************************************)
(* A model of the orchestration core of uproot-labs lab1:                  *)
(*   - pkg/rollback.py : rollback_all, the verified restore of the two     *)
(*     pfSense firewalls, the switch, the gateway wait and the routers     *)
(*     (specification Spec);                                               *)
(*   - pkg/switch.py   : run_switch, the random VLAN fault on the switch   *)
(*     (specification SpecSwitch);                                         *)
(*   - pkg/routers.py  : run_sp_routers, the random fault on each router   *)
(*     (specification SpecRouters);                                        *)
(*   - pkg/firewalls.py: run_firewalls, the random fault on each firewall  *)
(*     (specification SpecFirewalls);                                      *)
(*   - the four connectivity waits of rollback.py called on their own      *)
(*     against a network that becomes reachable at a given time            *)
(*     (specification SpecWait), and a process that runs any one of the    *)
(*     commands above (specification SpecRun);                             *)
(*   - the reading of the optional credentials from the environment and    *)
(*     the building of the device session from them, in each of the four   *)
(*     modules (specification SpecEnv);                                    *)
(*   - the loop of run_switch that draws the VLAN ids of the plan, with    *)
(*     the VLAN range and the trunk list length cut down to small bounds   *)
(*     (specification SpecVlan).                                           *)
(* Time is counted in whole seconds from the start of the current wait.    *)
(* A value the program reads once (an environment variable, the existence  *)
(* of a file, the result of a subprocess or of a probe) is drawn where the *)
(* program reads it.                                                       *)
(***************************************************************************)
EXTENDS Integers, Sequences, FiniteSets, TLC

VARIABLES
    \* ---- rollback.py ----
    pc,             \* the step rollback_all is about to execute
    stage,          \* the call of rollback_all that is in progress
    cur,            \* label of the device being restored
    log,            \* history: the operations issued, in order
    outcome,        \* history: how each firewall restore ended
    boot_before,    \* local of _restore_pfsense
    boot_after,     \* local of _restore_pfsense
    rebootErr,      \* history: the reboot ssh command ended with rc # 0
    dropped,        \* local of _restore_pfsense
    up,             \* result of _wait_tcp_up in _restore_pfsense
    wnow,           \* time.time() relative to the start of the current wait
    wend,           \* end / deadline of the current wait
    open,           \* labels of the devices with an open CLI session
    prompt,         \* last character of the prompt of the open session
    exc,            \* the exception that ended the run, or None
    pingOk,         \* history: a ping of the ens4 gateway returned rc = 0
    wlast,          \* history: the wait that has just returned, or <<>>
    reachAt,        \* the network: <<T>> when what a wait polls for holds
                    \* from T seconds after its start on, <<>> when free
    priv,           \* history: how _netmiko_connect_telnet sought privilege
    \* ---- switch.py ----
    sw_pc,          \* the step run_switch is about to execute
    sw_runs,        \* calls of run_switch made so far in this process
    portStatus,     \* the switch: status of every port
    hostPort,       \* the switch port the operator host is attached to
    EXCLUDE_PORTS,  \* module global of switch.py
    sw_open,        \* the netmiko session of run_switch is open
    sw_prompt,      \* last character of the prompt of that session
    detect,         \* history: how the host-port detection of this run ended
    interfaces,     \* local of run_switch: rows of 'show interfaces status'
    connected,      \* local of run_switch: the eligible rows
    plan,           \* local of run_switch
    sent,           \* history: configuration command sets sent in this run
    sw_exc,         \* the exception run_switch raised, or None
    sw_result,      \* history: how this run of run_switch ended
    APPLY_CHANGES,  \* module global of switch.py
    sw_priv,        \* history: how ensure_privileged sought privilege
    \* ---- routers.py ----
    rt_pc,          \* the step run_sp_routers is about to execute
    rt_cur,         \* label of the router being broken
    rt_open,        \* labels of the routers with an open session
    rt_log,         \* history: connections, faults and commands, in order
    rt_priv,        \* history: how ensure_privileged sought privilege
    rt_prompt,      \* the prompt of the open router session, None if none
    data,           \* local of get_l3_ifaces: the shape of the structured
                    \* answer ("records", "nothing", "text"), None before
    l3,             \* local of apply_fault
    two,            \* local of apply_fault
    def_oif,        \* local of apply_fault
    north_if,       \* local of apply_fault
    south_if,       \* local of apply_fault
    south_net,      \* local of apply_fault
    fault,          \* local of apply_fault: <<the (name, cmds) chosen>>
    rt_exc,         \* the exception run_sp_routers raised, or None
    ROUTERS_APPLY_CHANGES,  \* module global APPLY_CHANGES of routers.py
    \* ---- firewalls.py ----
    fw_pc,          \* the step run_firewalls is about to execute
    fw_cur,         \* label of the firewall being broken
    fw_api,         \* history: the REST prefix detected for each firewall
    fw_fault,       \* history: the fault chosen for each firewall
    fw_reqs,        \* history: the HTTP requests made, in order
    fw_result,      \* history: how _run_one_firewall ended for each firewall
    gateways,       \* local of fault_disable_default_gateway
    payload,        \* local of fault_disable_default_gateway: <<payload>>
    fw_exc,         \* the exception run_firewalls raised, or None
    FIREWALLS_APPLY_CHANGES, \* module global APPLY_CHANGES of firewalls.py
    \* ---- the credentials each module hands to a device session ----
    env_pc,         \* "idle", "start", or the function that built the session
    environ,        \* os.environ: the raw value of each optional variable
    device,         \* <<the credentials the session was built with>>
    \* ---- switch.py: the drawing of the VLAN plan ----
    vl_pc,          \* the step of the planning loop about to execute
    vl_connected,   \* local 'connected' of run_switch: the eligible rows
    targets,        \* local of run_switch: connected[:MAX_PORTS]
    vl_plan,        \* local 'plan', port and mode of each entry
    entry,          \* <<the entry this pass of the for loop appended to
                    \* plan, with its VLAN ids>>, <<>> while it is drawn
    allowed_count,  \* local of run_switch: the drawn length of a trunk list
    vlans,          \* local of _rand_vlan_list: the ids drawn so far
    iters           \* passes of the while loop of _rand_vlan_list so far

rbVars == <<pc, stage, cur, log, outcome, boot_before, boot_after, rebootErr,
            dropped, up, wnow, wend, open, prompt, exc, pingOk, wlast,
            reachAt, priv>>
swVars == <<sw_pc, sw_runs, portStatus, hostPort, EXCLUDE_PORTS, sw_open,
            sw_prompt, detect, interfaces, connected, plan, sent, sw_exc,
            sw_result, APPLY_CHANGES, sw_priv>>
rtVars == <<rt_pc, rt_cur, rt_open, rt_log, rt_priv, rt_prompt, data, l3, two,
            def_oif,
            north_if, south_if, south_net, fault, rt_exc,
            ROUTERS_APPLY_CHANGES>>
fwVars == <<fw_pc, fw_cur, fw_api, fw_fault, fw_reqs, fw_result, gateways,
            payload, fw_exc, FIREWALLS_APPLY_CHANGES>>
envVars == <<env_pc, environ, device>>
vlVars == <<vl_pc, vl_connected, targets, vl_plan, entry, allowed_count, vlans,
            iters>>
vars == <<rbVars, swVars, rtVars, fwVars, envVars, vlVars>>

\* What the actions of one module leave alone: the state of the others.
notRb == <<swVars, rtVars, fwVars, envVars, vlVars>>
notSw == <<rbVars, rtVars, fwVars, envVars, vlVars>>
notRt == <<rbVars, swVars, fwVars, envVars, vlVars>>
notFw == <<rbVars, swVars, rtVars, envVars, vlVars>>
notEnv == <<rbVars, swVars, rtVars, fwVars, vlVars>>
notVl == <<rbVars, swVars, rtVars, fwVars, envVars>>

None == "None"

\* The element that follows x in seq, "return" after the last one.
IndexOf(seq, x) == CHOOSE i \in 1..Len(seq) : seq[i] = x
After(seq, x) ==
    IF IndexOf(seq, x) < Len(seq) THEN seq[IndexOf(seq, x) + 1] ELSE "return"

(***************************************************************************)
(*                              rollback.py                                *)
(***************************************************************************)
TCP_TIMEOUT == 3
DOWN_INTERVAL == 2
UP_INTERVAL == 3
DOWN_WAIT == 60
UP_WAIT == 300
GW_WAIT == 300
GW_INTERVAL == 3
PING_WAIT == 1
ROUTER_TCP_WAIT == 240
TCP_INTERVAL == 3

\* What 'sysctl -n kern.boottime' can print, stripped: "" when the command
\* gives nothing.
BootTokens == {"", "141234", "141300"}
Unset == "unset"

\* rollback_all with the router stage called before the gateway wait.
rollback_all_body_routers_first ==
    <<"rollback_firewalls", "rollback_cisco_switch",
      "rollback_cisco_routers", "_wait_for_ens4_gateway", "complete">>

\* The statements of rollback_all, in order.
rollback_all_body ==
    <<"rollback_firewalls", "rollback_cisco_switch",
      "_wait_for_ens4_gateway", "rollback_cisco_routers", "complete">>

\* The two calls of rollback_firewalls, in order.
firewall_order == <<"BRANCH_FW", "APP_FW">>

\* The two blocks of rollback_cisco_routers, in order.
router_order == <<"SP-ROUTER1", "SP-ROUTER2">>

\* _restore_pfsense with the push made before the baseline file is checked.
restore_pfsense_body_scp_first ==
    <<"scp", "exists", "boot_before", "reboot", "wait_down", "wait_up",
      "boot_after">>

\* _restore_pfsense with the reboot issued before boot_before is captured.
restore_pfsense_body_reboot_first ==
    <<"exists", "scp", "reboot", "boot_before", "wait_down", "wait_up",
      "boot_after">>

\* The statements of _restore_pfsense, in order.
restore_pfsense_body ==
    <<"exists", "scp", "boot_before", "reboot", "wait_down", "wait_up",
      "boot_after">>

\* The statements of _rollback_cisco, in order.
rollback_cisco_body ==
    <<"connect", "terminal length 0", "configure replace", "find_prompt",
      "write memory", "disconnect">>

\* The reboot run with check=True, as the scp is.
reboot_check_true == TRUE

\* subprocess.run(..., check=False) in _ssh_reboot_pfsense.
reboot_check == FALSE

\* The comparison of the two tokens left out.
boot_unchanged_never(before, after) == FALSE

\* The comparison of the two tokens inverted.
boot_unchanged_inverted(before, after) ==
    before # "" /\ after # "" /\ before # after

\* if boot_before and boot_after and boot_before == boot_after
boot_unchanged(before, after) ==
    before # "" /\ after # "" /\ before = after

\* The return after 'ssh did not return' left out.
after_wait_up_no_return(u) == After(restore_pfsense_body, "wait_up")

\* if not _wait_tcp_up(...): ... return
after_wait_up(u) ==
    IF u THEN After(restore_pfsense_body, "wait_up") ELSE "restore_return"

\* The gateway returned whatever the ping's exit status.
ping_reachable_any(rc) == TRUE

\* if rc == 0: return gw
ping_reachable(rc) == rc = 0

Timeout(p) ==
    CASE p = "wait_down" -> DOWN_WAIT
      [] p = "wait_up" -> UP_WAIT
      [] p = "_wait_for_ens4_gateway" -> GW_WAIT
      [] p = "_wait_for_tcp" -> ROUTER_TCP_WAIT
      [] OTHER -> 0

\* while time.time() <= end
before_deadline_inclusive(now, end) == now <= end

\* while time.time() < end
before_deadline(now, end) == now < end

\* A failed probe followed by two sleeps.
next_poll_sleeps_twice(now, d, interval) == now + d + interval + interval

\* The time of the next pass: the failed probe took d, then
\* time.sleep(interval_s).
next_poll(now, d, interval) == now + d + interval

\* The answers a probe started at t and lasting d can give to "does what
\* the wait polls for hold".
Answers(t, d) ==
    IF reachAt = <<>> THEN BOOLEAN
    ELSE IF t >= reachAt[1] THEN {TRUE}
    ELSE IF t + d >= reachAt[1] THEN BOOLEAN
    ELSE {FALSE}

\* The record of a wait w that returns (ok) or gives up (~ok) t seconds
\* after it started.
Returned(w, t, ok) == <<[wait |-> w, took |-> t, ok |-> ok]>>

\* Control moves to step p; a wait computes its end from the time it starts.
EnterFrom(p, r) ==
    /\ pc' = p
    /\ wnow' = 0
    /\ wend' = Timeout(p)
    /\ exc' = exc
    /\ wlast' = r
    /\ reachAt' = reachAt

Enter(p) == EnterFrom(p, <<>>)

\* An exception nothing catches: rollback_all, module_runner.run and
\* break_things.main have no handler.
RaiseFrom(e, r) ==
    /\ exc' = e
    /\ pc' = "crashed"
    /\ wnow' = 0
    /\ wend' = 0
    /\ wlast' = r
    /\ reachAt' = reachAt

Raise(e) == RaiseFrom(e, <<>>)

Event(d, op) == [stage |-> stage, dev |-> d, op |-> op]

\* A finally clause that does not close the session.
disconnect_leaves_open(sessions, d) == sessions

\* conn.disconnect(): the open sessions without that of device d.
disconnect(sessions, d) == sessions \ {d}

\* How the opening of a CLI session sought privileged mode: the last
\* character of the first prompt, whether an enable secret was supplied, the
\* way taken ("none", "secret": conn.enable(), "bare": the command enable),
\* whether the device asked for a password, and the error raised.
Sought(p, secret, method, asked, err) ==
    <<[prompt |-> p, secret |-> secret, method |-> method, asked |-> asked,
       err |-> err]>>

\* The probes of one wait are recorded once.
Logged(l, e) == IF l # <<>> /\ l[Len(l)] = e THEN l ELSE Append(l, e)

HasEvent(d, op) == \E i \in 1..Len(log) : log[i].dev = d /\ log[i].op = op
HasDev(d) == \E i \in 1..Len(log) : log[i].dev = d

RbInit ==
    /\ pc = "rollback_firewalls"
    /\ stage = "rollback_firewalls"
    /\ cur = None
    /\ log = <<>>
    /\ outcome = [f \in {"BRANCH_FW", "APP_FW"} |-> "none"]
    /\ boot_before = Unset
    /\ boot_after = Unset
    /\ rebootErr = FALSE
    /\ dropped = FALSE
    /\ up = FALSE
    /\ wnow = 0
    /\ wend = 0
    /\ open = {}
    /\ prompt = None
    /\ exc = None
    /\ pingOk = FALSE
    /\ wlast = <<>>
    /\ reachAt = <<>>
    /\ priv = <<>>

\* rollback_all calls the statement after s, or ends.
CallNextFrom(s, r) ==
    /\ stage' = After(rollback_all_body, s)
    /\ EnterFrom(After(rollback_all_body, s), r)

CallNext(s) == CallNextFrom(s, <<>>)

\* rollback_firewalls up to its first call of _restore_pfsense.
RollbackFirewalls ==
    /\ pc = "rollback_firewalls"
    /\ log' = Append(log, Event(None, "rollback_firewalls"))
    /\ \E b_ok \in BOOLEAN, a_ok \in BOOLEAN :
         IF ~b_ok \/ ~a_ok
         THEN /\ Raise("RuntimeError")
              /\ UNCHANGED cur
         ELSE /\ cur' = firewall_order[1]
              /\ Enter(restore_pfsense_body[1])
    /\ UNCHANGED <<stage, outcome, boot_before, boot_after, rebootErr, dropped,
                   up, open, prompt, pingOk>>
    /\ UNCHANGED priv
    /\ UNCHANGED notRb

\* if not baseline.exists(): raise FileNotFoundError
RestoreExists ==
    /\ pc = "exists"
    /\ log' = Append(log, Event(cur, "exists"))
    /\ \E exists \in BOOLEAN :
         IF exists
         THEN /\ Enter(After(restore_pfsense_body, "exists"))
              /\ UNCHANGED outcome
         ELSE /\ Raise("FileNotFoundError")
              /\ outcome' = [outcome EXCEPT ![cur] = "error"]
    /\ UNCHANGED <<stage, cur, boot_before, boot_after, rebootErr, dropped, up,
                   open, prompt, pingOk>>
    /\ UNCHANGED priv
    /\ UNCHANGED notRb

\* _scp_to_pfsense: subprocess.run(..., check=True)
RestoreScp ==
    /\ pc = "scp"
    /\ log' = Append(log, Event(cur, "scp"))
    /\ \E rc \in {0, 1} :
         IF rc = 0
         THEN /\ Enter(After(restore_pfsense_body, "scp"))
              /\ UNCHANGED outcome
         ELSE /\ Raise("CalledProcessError")
              /\ outcome' = [outcome EXCEPT ![cur] = "error"]
    /\ UNCHANGED <<stage, cur, boot_before, boot_after, rebootErr, dropped, up,
                   open, prompt, pingOk>>
    /\ UNCHANGED priv
    /\ UNCHANGED notRb

\* boot_before = _ssh_pfsense_boottime(...)
RestoreBootBefore ==
    /\ pc = "boot_before"
    /\ log' = Append(log, Event(cur, "boot_before"))
    /\ \E tok \in BootTokens : boot_before' = tok
    /\ Enter(After(restore_pfsense_body, "boot_before"))
    /\ UNCHANGED <<stage, cur, outcome, boot_after, rebootErr, dropped, up,
                   open, prompt, pingOk>>
    /\ UNCHANGED priv
    /\ UNCHANGED notRb

\* _ssh_reboot_pfsense
RestoreReboot ==
    /\ pc = "reboot"
    /\ log' = Append(log, Event(cur, "reboot"))
    /\ \E rc \in {0, 255} :
         /\ rebootErr' = (rc # 0)
         /\ IF reboot_check /\ rc # 0
            THEN /\ Raise("CalledProcessError")
                 /\ outcome' = [outcome EXCEPT ![cur] = "error"]
            ELSE /\ Enter(After(restore_pfsense_body, "reboot"))
                 /\ UNCHANGED outcome
    /\ UNCHANGED <<stage, cur, boot_before, boot_after, dropped, up, open,
                   prompt, pingOk>>
    /\ UNCHANGED priv
    /\ UNCHANGED notRb

\* One pass of the loop of _wait_tcp_down, and the statements that follow
\* its return in _restore_pfsense.
WaitTcpDown ==
    /\ pc = "wait_down"
    /\ log' = Logged(log, Event(cur, "wait_down"))
    /\ IF before_deadline(wnow, wend)
       THEN \E d \in 0..TCP_TIMEOUT, isOpen \in BOOLEAN :
              /\ (~isOpen) \in Answers(wnow, d)
              /\ IF ~isOpen
                 THEN /\ dropped' = TRUE
                      /\ EnterFrom(After(restore_pfsense_body, "wait_down"),
                                   Returned("wait_down", wnow + d, TRUE))
                 ELSE /\ wnow' = next_poll(wnow, d, DOWN_INTERVAL)
                      /\ wlast' = <<>>
                      /\ UNCHANGED <<pc, wend, dropped, exc, reachAt>>
       ELSE /\ dropped' = FALSE
            /\ EnterFrom(After(restore_pfsense_body, "wait_down"),
                         Returned("wait_down", wnow, FALSE))
    /\ UNCHANGED <<stage, cur, outcome, boot_before, boot_after, rebootErr, up,
                   open, prompt, pingOk>>
    /\ UNCHANGED priv
    /\ UNCHANGED notRb

\* One pass of the loop of _wait_tcp_up, and the test of its result.
WaitTcpUp ==
    /\ pc = "wait_up"
    /\ log' = Logged(log, Event(cur, "wait_up"))
    /\ IF before_deadline(wnow, wend)
       THEN \E d \in 0..TCP_TIMEOUT, isOpen \in BOOLEAN :
              /\ isOpen \in Answers(wnow, d)
              /\ IF isOpen
                 THEN /\ up' = TRUE
                      /\ EnterFrom(after_wait_up(TRUE),
                                   Returned("wait_up", wnow + d, TRUE))
                      /\ UNCHANGED outcome
                 ELSE /\ wnow' = next_poll(wnow, d, UP_INTERVAL)
                      /\ wlast' = <<>>
                      /\ UNCHANGED <<pc, wend, up, outcome, exc, reachAt>>
       ELSE /\ up' = FALSE
            /\ outcome' = [outcome EXCEPT ![cur] = "no_return"]
            /\ EnterFrom(after_wait_up(FALSE),
                         Returned("wait_up", wnow, FALSE))
    /\ UNCHANGED <<stage, cur, boot_before, boot_after, rebootErr, dropped,
                   open, prompt, pingOk>>
    /\ UNCHANGED priv
    /\ UNCHANGED notRb

\* boot_after = _ssh_pfsense_boottime(...) and the comparison.
RestoreBootAfter ==
    /\ pc = "boot_after"
    /\ log' = Append(log, Event(cur, "boot_after"))
    /\ \E tok \in BootTokens :
         /\ boot_after' = tok
         /\ outcome' = [outcome EXCEPT ![cur] =
                IF boot_unchanged(boot_before, tok) THEN "same_boot"
                                                    ELSE "success"]
    /\ Enter("restore_return")
    /\ UNCHANGED <<stage, cur, boot_before, rebootErr, dropped, up, open,
                   prompt, pingOk>>
    /\ UNCHANGED priv
    /\ UNCHANGED notRb

\* _restore_pfsense returned: the next call of rollback_firewalls, or its end.
RestoreReturn ==
    /\ pc = "restore_return"
    /\ IF After(firewall_order, cur) # "return"
       THEN /\ cur' = After(firewall_order, cur)
            /\ Enter(restore_pfsense_body[1])
            /\ UNCHANGED stage
       ELSE /\ cur' = None
            /\ CallNext("rollback_firewalls")
    /\ boot_before' = Unset
    /\ boot_after' = Unset
    /\ rebootErr' = FALSE
    /\ dropped' = FALSE
    /\ up' = FALSE
    /\ UNCHANGED <<log, outcome, open, prompt, pingOk>>
    /\ UNCHANGED priv
    /\ UNCHANGED notRb

\* rollback_cisco_switch
RollbackCiscoSwitch ==
    /\ pc = "rollback_cisco_switch"
    /\ log' = Append(log, Event(None, "rollback_cisco_switch"))
    /\ \E sw_ip \in {None, "ip"} :
         IF sw_ip # None
         THEN /\ cur' = "SWITCH1"
              /\ Enter(rollback_cisco_body[1])
              /\ UNCHANGED stage
         ELSE /\ CallNext("rollback_cisco_switch")
              /\ UNCHANGED cur
    /\ UNCHANGED <<outcome, boot_before, boot_after, rebootErr, dropped, up,
                   open, prompt, pingOk>>
    /\ UNCHANGED priv
    /\ UNCHANGED notRb

\* _netmiko_connect_telnet
NetmikoConnectTelnet ==
    /\ pc = "connect"
    /\ \E connOk \in BOOLEAN, p \in {"#", ">"}, enable \in {None, "secret"},
          ok \in BOOLEAN, asked \in BOOLEAN, p2 \in {"#", ">"} :
         IF ~connOk
         THEN /\ Raise("NetmikoTimeoutException")
              /\ log' = Append(log, Event(cur, "connect"))
              /\ UNCHANGED <<open, prompt, priv>>
         ELSE /\ open' = open \cup {cur}
              /\ IF p = "#"
                 THEN /\ prompt' = p
                      /\ priv' = Sought(p, enable # None, "none", FALSE, None)
                      /\ log' = Append(log, Event(cur, "connect"))
                      /\ Enter(After(rollback_cisco_body, "connect"))
                 ELSE /\ log' = Append(Append(log, Event(cur, "connect")),
                                       Event(cur, "enable"))
                      /\ IF enable # None
                         THEN /\ priv' = Sought(p, TRUE, "secret", TRUE,
                                     IF ok THEN None ELSE "ValueError")
                              /\ IF ok
                                 THEN /\ prompt' = "#"
                                      /\ Enter(After(rollback_cisco_body,
                                                     "connect"))
                                 ELSE /\ prompt' = p
                                      /\ Raise("ValueError")
                         ELSE /\ priv' = Sought(p, FALSE, "bare", asked,
                                     IF asked THEN "enable not set" ELSE None)
                              /\ IF asked
                                 THEN /\ prompt' = p
                                      /\ Raise("RuntimeError")
                                 ELSE /\ prompt' = p2
                                      /\ Enter(After(rollback_cisco_body,
                                                     "connect"))
    /\ UNCHANGED <<stage, cur, outcome, boot_before, boot_after, rebootErr,
                   dropped, up, pingOk>>
    /\ UNCHANGED notRb

\* The return of _rollback_cisco to its caller.
CiscoReturn ==
    IF stage = "rollback_cisco_routers" /\ After(router_order, cur) # "return"
    THEN /\ cur' = After(router_order, cur)
         /\ Enter("router_env")
         /\ UNCHANGED stage
    ELSE /\ cur' = None
         /\ CallNext(stage)

\* A command of the try block of _rollback_cisco; finally: conn.disconnect().
RollbackCiscoSend ==
    /\ pc \in {"terminal length 0", "configure replace", "find_prompt",
               "write memory"}
    /\ \E ok \in BOOLEAN :
         IF ok
         THEN /\ log' = Append(log, Event(cur, pc))
              /\ Enter(After(rollback_cisco_body, pc))
              /\ UNCHANGED <<open, prompt, priv>>
         ELSE /\ log' = Append(Append(log, Event(cur, pc)),
                               Event(cur, "disconnect"))
              /\ open' = disconnect(open, cur)
              /\ prompt' = None
              /\ priv' = <<>>
              /\ Raise("ReadTimeout")
    /\ UNCHANGED <<stage, cur, outcome, boot_before, boot_after, rebootErr,
                   dropped, up, pingOk>>
    /\ UNCHANGED notRb

\* finally: conn.disconnect(), and the return of _rollback_cisco.
RollbackCiscoDisconnect ==
    /\ pc = "disconnect"
    /\ log' = Append(log, Event(cur, "disconnect"))
    /\ open' = disconnect(open, cur)
    /\ prompt' = None
    /\ priv' = <<>>
    /\ CiscoReturn
    /\ UNCHANGED <<outcome, boot_before, boot_after, rebootErr, dropped, up,
                   pingOk>>
    /\ UNCHANGED notRb

\* One pass of the loop of _wait_for_ens4_gateway.
WaitForEns4Gateway ==
    /\ pc = "_wait_for_ens4_gateway"
    /\ log' = Logged(log, Event("GATEWAY", "_wait_for_ens4_gateway"))
    /\ IF before_deadline(wnow, wend)
       THEN \E gw \in {None, "gw"}, d \in 0..PING_WAIT, rc \in {0, 1} :
              /\ (gw # None /\ rc = 0) \in Answers(wnow, d)
              /\ IF gw # None
                 THEN /\ pingOk' = (pingOk \/ rc = 0)
                      /\ IF ping_reachable(rc)
                         THEN CallNextFrom("_wait_for_ens4_gateway",
                                  Returned("_wait_for_ens4_gateway",
                                           wnow + d, TRUE))
                         ELSE /\ wnow' = next_poll(wnow, d, GW_INTERVAL)
                              /\ wlast' = <<>>
                              /\ UNCHANGED <<pc, stage, wend, exc, reachAt>>
                 ELSE /\ wnow' = next_poll(wnow, 0, GW_INTERVAL)
                      /\ wlast' = <<>>
                      /\ UNCHANGED <<pc, stage, wend, exc, pingOk, reachAt>>
       ELSE /\ RaiseFrom("TimeoutError",
                         Returned("_wait_for_ens4_gateway", wnow, FALSE))
            /\ UNCHANGED <<stage, pingOk>>
    /\ UNCHANGED <<cur, outcome, boot_before, boot_after, rebootErr, dropped,
                   up, open, prompt>>
    /\ UNCHANGED priv
    /\ UNCHANGED notRb

\* rollback_cisco_routers: the first statement.
RollbackCiscoRouters ==
    /\ pc = "rollback_cisco_routers"
    /\ log' = Append(log, Event(None, "rollback_cisco_routers"))
    /\ cur' = router_order[1]
    /\ Enter("router_env")
    /\ UNCHANGED <<stage, outcome, boot_before, boot_after, rebootErr, dropped,
                   up, open, prompt, pingOk>>
    /\ UNCHANGED priv
    /\ UNCHANGED notRb

\* r1_ip = _env(...); if r1_ip: (and the same for r2_ip)
RouterEnv ==
    /\ pc = "router_env"
    /\ \E ip \in {None, "ip"} :
         IF ip # None
         THEN /\ Enter("_wait_for_tcp")
              /\ UNCHANGED <<stage, cur>>
         ELSE CiscoReturn
    /\ UNCHANGED <<log, outcome, boot_before, boot_after, rebootErr, dropped,
                   up, open, prompt, pingOk>>
    /\ UNCHANGED priv
    /\ UNCHANGED notRb

\* One pass of the loop of _wait_for_tcp.
WaitForTcp ==
    /\ pc = "_wait_for_tcp"
    /\ log' = Logged(log, Event(cur, "_wait_for_tcp"))
    /\ IF before_deadline(wnow, wend)
       THEN \E d \in 0..TCP_TIMEOUT, isOpen \in BOOLEAN :
              /\ isOpen \in Answers(wnow, d)
              /\ IF isOpen
                 THEN EnterFrom(rollback_cisco_body[1],
                                Returned("_wait_for_tcp", wnow + d, TRUE))
                 ELSE /\ wnow' = next_poll(wnow, d, TCP_INTERVAL)
                      /\ wlast' = <<>>
                      /\ UNCHANGED <<pc, wend, exc, reachAt>>
       ELSE RaiseFrom("TimeoutError", Returned("_wait_for_tcp", wnow, FALSE))
    /\ UNCHANGED <<stage, cur, outcome, boot_before, boot_after, rebootErr,
                   dropped, up, open, prompt, pingOk>>
    /\ UNCHANGED priv
    /\ UNCHANGED notRb

\* logger.info("Rollback Complete!")
RollbackComplete ==
    /\ pc = "complete"
    /\ log' = Append(log, Event(None, "Rollback Complete!"))
    /\ pc' = "done"
    /\ wlast' = <<>>
    /\ UNCHANGED <<stage, cur, outcome, boot_before, boot_after, rebootErr,
                   dropped, up, wnow, wend, open, prompt, exc, pingOk,
                   reachAt>>
    /\ UNCHANGED priv
    /\ UNCHANGED notRb

RbNext ==
    \/ RollbackFirewalls
    \/ RestoreExists
    \/ RestoreScp
    \/ RestoreBootBefore
    \/ RestoreReboot
    \/ WaitTcpDown
    \/ WaitTcpUp
    \/ RestoreBootAfter
    \/ RestoreReturn
    \/ RollbackCiscoSwitch
    \/ NetmikoConnectTelnet
    \/ RollbackCiscoSend
    \/ RollbackCiscoDisconnect
    \/ WaitForEns4Gateway
    \/ RollbackCiscoRouters
    \/ RouterEnv
    \/ WaitForTcp
    \/ RollbackComplete

(***************************************************************************)
(*                               switch.py                                 *)
(***************************************************************************)
MAX_PORTS == 4
WRITE_MEM == FALSE

\* Calls of run_switch that module_runner.run can make in one process
\* (--all, then --switch).
SWITCH_RUNS == 2

\* Number of ports of the modelled switch.
NPorts == 3

PortNames == <<"Gi0/1", "Gi0/2", "Gi0/3", "Gi0/4", "Gi0/5", "Gi0/6">>
Ports == {PortNames[i] : i \in 1..NPorts}

\* The rows TextFSM gives for 'show interfaces status', in table order.
StatusRows == [i \in 1..NPorts |->
                 [port |-> PortNames[i], status |-> portStatus[PortNames[i]]]]

\* The filter without the exclusion test.
eligible_no_exclusion(i, excl) == i.status = "connected"

\* The filter without the status test.
eligible_no_status(i, excl) == i.port \notin excl

\* i.get("status") == "connected" and i.get("port") not in EXCLUDE_PORTS
eligible(i, excl) == i.status = "connected" /\ i.port \notin excl

\* The list comprehension that builds 'connected'.
Filter(rows, excl) == SelectSeq(rows, LAMBDA i : eligible(i, excl))

\* The orders random.shuffle can leave a list in.
Shuffles(l) ==
    {[i \in 1..Len(l) |-> l[f[i]]] :
        f \in {g \in [1..Len(l) -> 1..Len(l)] :
                 \A a, b \in 1..Len(l) : a # b => g[a] # g[b]}}

\* connected[:MAX_PORTS]
Truncate(l) == SubSeq(l, 1, IF Len(l) < MAX_PORTS THEN Len(l) ELSE MAX_PORTS)

SwIdle ==
    /\ sw_pc = "idle"
    /\ sw_runs = 0
    /\ portStatus = <<>>
    /\ hostPort = None
    /\ EXCLUDE_PORTS = {}
    /\ sw_open = FALSE
    /\ sw_prompt = None
    /\ detect = None
    /\ interfaces = <<>>
    /\ connected = <<>>
    /\ plan = <<>>
    /\ sent = <<>>
    /\ sw_exc = None
    /\ sw_result = None
    /\ APPLY_CHANGES = TRUE
    /\ sw_priv = <<>>

\* The process starts: the module globals as switch.py sets them (the
\* APPLY_CHANGES flag either way), and a switch the host is attached to.
SwInit ==
    /\ sw_pc = "start"
    /\ sw_runs = 1
    /\ portStatus \in [Ports -> {"connected", "notconnect"}]
    /\ hostPort \in Ports
    /\ portStatus[hostPort] = "connected"
    /\ EXCLUDE_PORTS = {}
    /\ sw_open = FALSE
    /\ sw_prompt = None
    /\ detect = None
    /\ interfaces = <<>>
    /\ connected = <<>>
    /\ plan = <<>>
    /\ sent = <<>>
    /\ sw_exc = None
    /\ sw_result = None
    /\ APPLY_CHANGES \in BOOLEAN
    /\ sw_priv = <<>>

\* run_switch ends: the finally clause disconnects an open session.
SwEnd(result, e) ==
    /\ sw_pc' = "end"
    /\ sw_result' = result
    /\ sw_exc' = e
    /\ sw_open' = FALSE
    /\ sw_prompt' = None

SwGoto(p) ==
    /\ sw_pc' = p
    /\ UNCHANGED <<sw_result, sw_exc>>

\* run_switch up to ConnectHandler(**device).
SwConnect ==
    /\ sw_pc = "start"
    /\ \E host \in {None, "ip"}, connOk \in BOOLEAN, p \in {"#", ">", "$"} :
         IF host = None
         THEN SwEnd("error", "RuntimeError")
         ELSE IF ~connOk
              THEN SwEnd("error", "NetmikoTimeoutException")
              ELSE /\ sw_open' = TRUE
                   /\ sw_prompt' = p
                   /\ SwGoto("ensure_privileged")
    /\ UNCHANGED <<sw_runs, portStatus, hostPort, EXCLUDE_PORTS, detect,
                   interfaces, connected, plan, sent, APPLY_CHANGES>>
    /\ UNCHANGED sw_priv
    /\ UNCHANGED notSw

\* ensure_privileged(conn); SWITCH1_ENABLE is read nowhere in switch.py.
SwEnsurePrivileged ==
    /\ sw_pc = "ensure_privileged"
    /\ \E SWITCH1_ENABLE \in {None, "secret"}, asksPassword \in BOOLEAN,
          prompt2 \in {"#", ">"} :
         IF sw_prompt = "#"
         THEN /\ sw_priv' = Sought(sw_prompt, SWITCH1_ENABLE # None, "none",
                                   FALSE, None)
              /\ SwGoto("detect")
              /\ UNCHANGED <<sw_open, sw_prompt>>
         ELSE IF sw_prompt = ">"
              THEN IF asksPassword
                   THEN /\ sw_priv' = Sought(sw_prompt, SWITCH1_ENABLE # None,
                                       "bare", TRUE, "enable not set")
                        /\ SwEnd("error", "RuntimeError")
                   ELSE /\ sw_priv' = Sought(sw_prompt, SWITCH1_ENABLE # None,
                               "bare", FALSE,
                               IF prompt2 # "#" THEN "not privileged"
                                                ELSE None)
                        /\ IF prompt2 # "#"
                           THEN SwEnd("error", "RuntimeError")
                           ELSE /\ sw_prompt' = prompt2
                                /\ SwGoto("detect")
                                /\ UNCHANGED sw_open
              ELSE /\ sw_priv' = Sought(sw_prompt, SWITCH1_ENABLE # None,
                                        "none", FALSE, "unexpected prompt")
                   /\ SwEnd("error", "RuntimeError")
    /\ UNCHANGED <<sw_runs, portStatus, hostPort, EXCLUDE_PORTS, detect,
                   interfaces, connected, plan, sent, APPLY_CHANGES>>
    /\ UNCHANGED notSw

\* The inner try block: the host port is looked up and excluded; any
\* exception is logged and the run continues.
SwDetectHostPort ==
    /\ sw_pc = "detect"
    /\ \E r \in {"found", "not_found", "error"} :
         /\ detect' = r
         /\ EXCLUDE_PORTS' = IF r = "found" THEN EXCLUDE_PORTS \cup {hostPort}
                                            ELSE EXCLUDE_PORTS
    /\ SwGoto("query")
    /\ UNCHANGED <<sw_runs, portStatus, hostPort, sw_open, sw_prompt,
                   interfaces, connected, plan, sent, APPLY_CHANGES>>
    /\ UNCHANGED sw_priv
    /\ UNCHANGED notSw

\* interfaces = conn.send_command("show interfaces status", use_textfsm=True)
\* and the list comprehension; "raw" is the unparsed text netmiko returns
\* when TextFSM fails, on whose characters i.get raises.
SwQueryInterfaces ==
    /\ sw_pc = "query"
    /\ \E shape \in {"rows", "empty", "raw"} :
         IF shape = "empty"
         THEN /\ SwEnd("error", "RuntimeError")
              /\ UNCHANGED <<interfaces, connected>>
         ELSE IF shape = "raw"
              THEN /\ SwEnd("error", "AttributeError")
                   /\ UNCHANGED <<interfaces, connected>>
              ELSE /\ interfaces' = StatusRows
                   /\ connected' = Filter(StatusRows, EXCLUDE_PORTS)
                   /\ SwGoto("select")
                   /\ UNCHANGED <<sw_open, sw_prompt>>
    /\ UNCHANGED <<sw_runs, portStatus, hostPort, EXCLUDE_PORTS, detect, plan,
                   sent, APPLY_CHANGES>>
    /\ UNCHANGED sw_priv
    /\ UNCHANGED notSw

\* if not connected: return; the shuffle, the targets and the plan; the
\* APPLY_CHANGES test. The VLAN ids of a plan entry are left out.
SwPlan ==
    /\ sw_pc = "select"
    /\ IF connected = <<>>
       THEN /\ SwEnd("no_eligible", None)
            /\ UNCHANGED plan
       ELSE \E sh \in Shuffles(connected) :
              \E modes \in [1..Len(Truncate(sh)) -> {"access", "trunk"}] :
                 /\ plan' = [k \in 1..Len(Truncate(sh)) |->
                               [port |-> Truncate(sh)[k].port,
                                mode |-> modes[k]]]
                 /\ IF ~APPLY_CHANGES
                    THEN SwEnd("dry_run", None)
                    ELSE /\ SwGoto("create_vlans")
                         /\ UNCHANGED <<sw_open, sw_prompt>>
    /\ UNCHANGED <<sw_runs, portStatus, hostPort, EXCLUDE_PORTS, detect,
                   interfaces, connected, sent, APPLY_CHANGES>>
    /\ UNCHANGED sw_priv
    /\ UNCHANGED notSw

\* _maybe_create_vlans(conn, sorted(vlans_to_create)): every plan entry
\* names at least one VLAN, so the command set is not empty.
SwCreateVlans ==
    /\ sw_pc = "create_vlans"
    /\ sent' = Append(sent, [kind |-> "vlan", port |-> None, mode |-> None])
    /\ \E ok \in BOOLEAN :
         IF ok
         THEN /\ SwGoto("configure")
              /\ UNCHANGED <<sw_open, sw_prompt>>
         ELSE SwEnd("error", "ReadTimeout")
    /\ UNCHANGED <<sw_runs, portStatus, hostPort, EXCLUDE_PORTS, detect,
                   interfaces, connected, plan, APPLY_CHANGES>>
    /\ UNCHANGED sw_priv
    /\ UNCHANGED notSw

\* One pass of 'for port, mode, ... in plan: ... conn.send_config_set(cmds)',
\* and after the last one the WRITE_MEM test and the final log line.
SwConfigurePort ==
    /\ sw_pc = "configure"
    /\ LET k == Cardinality({i \in 1..Len(sent) : sent[i].kind = "interface"}) + 1
       IN  /\ sent' = Append(sent, [kind |-> "interface",
                                    port |-> plan[k].port,
                                    mode |-> plan[k].mode])
           /\ \E ok \in BOOLEAN :
                IF ~ok
                THEN SwEnd("error", "ReadTimeout")
                ELSE IF k < Len(plan)
                     THEN /\ SwGoto("configure")
                          /\ UNCHANGED <<sw_open, sw_prompt>>
                     ELSE SwEnd("broken", None)
    /\ UNCHANGED <<sw_runs, portStatus, hostPort, EXCLUDE_PORTS, detect,
                   interfaces, connected, plan, APPLY_CHANGES>>
    /\ UNCHANGED sw_priv
    /\ UNCHANGED notSw

\* module_runner.run calls run_switch again in the same process: the module
\* globals keep their values, the locals are new.
SwRunAgain ==
    /\ sw_pc = "end"
    /\ sw_exc = None
    /\ sw_runs < SWITCH_RUNS
    /\ sw_runs' = sw_runs + 1
    /\ sw_pc' = "start"
    /\ detect' = None
    /\ interfaces' = <<>>
    /\ connected' = <<>>
    /\ plan' = <<>>
    /\ sent' = <<>>
    /\ sw_result' = None
    /\ sw_priv' = <<>>
    /\ UNCHANGED <<portStatus, hostPort, EXCLUDE_PORTS, sw_open, sw_prompt,
                   sw_exc, APPLY_CHANGES>>
    /\ UNCHANGED notSw

SwNext ==
    \/ SwConnect
    \/ SwEnsurePrivileged
    \/ SwDetectHostPort
    \/ SwQueryInterfaces
    \/ SwPlan
    \/ SwCreateVlans
    \/ SwConfigurePort
    \/ SwRunAgain

(***************************************************************************)
(*                               routers.py                                *)
(***************************************************************************)
BOGUS_NHOP == "203.0.113.1"
ROUTERS_WRITE_MEM == FALSE

\* The longest 'show ip interface brief' table the routers answer with.
MaxIfaces == 3

IfNames ==
    <<"Ethernet0/0", "Ethernet0/1", "Ethernet0/2", "Ethernet0/3",
      "Ethernet1/0">>
LoopNames ==
    <<"Loopback0", "Loopback1", "loopback2", "Loopback3", "Loopback4">>
IfAddrs == <<"10.0.1.1", "10.0.2.1", "10.0.3.1", "10.0.4.1", "10.0.5.1">>
IfNets ==
    <<"10.0.1.0/24", "10.0.2.0/24", "10.0.3.0/24", "10.0.4.0/24",
      "10.0.5.0/24">>

\* The rows get_l3_ifaces can return at position k of the table.
RowKinds == {"loop", "noaddr", "upup", "updown", "admindown"}
Row(k, kind) ==
    CASE kind = "loop" ->
           [interface |-> LoopNames[k], ipaddr |-> IfAddrs[k],
            status |-> "up", proto |-> "up"]
      [] kind = "noaddr" ->
           [interface |-> IfNames[k], ipaddr |-> "unassigned",
            status |-> "up", proto |-> "up"]
      [] kind = "upup" ->
           [interface |-> IfNames[k], ipaddr |-> IfAddrs[k],
            status |-> "up", proto |-> "up"]
      [] kind = "updown" ->
           [interface |-> IfNames[k], ipaddr |-> IfAddrs[k],
            status |-> "up", proto |-> "down"]
      [] kind = "admindown" ->
           [interface |-> IfNames[k], ipaddr |-> IfAddrs[k],
            status |-> "administratively down", proto |-> "down"]

IfaceTables ==
    UNION {{[k \in 1..n |-> Row(k, f[k])] : f \in [1..n -> RowKinds]} :
           n \in 0..MaxIfaces}

\* iface.lower().startswith("loop")
lower_startswith_loop(iface) ==
    \E k \in 1..Len(LoopNames) : iface = LoopNames[k]

\* pick_two_interfaces keeping the loopback rows.
is_candidate_with_loopback(r) ==
    r.ipaddr \notin {"unassigned", "unknown", ""}

\* The filter of pick_two_interfaces: not a loopback, and with an address.
is_candidate(r) ==
    /\ ~lower_startswith_loop(r.interface)
    /\ r.ipaddr \notin {"unassigned", "unknown", ""}

\* pick_two_interfaces; <<>> stands for the RuntimeError it raises.
pick_two_interfaces(l3_rows) ==
    LET candidates == SelectSeq(l3_rows, is_candidate)
        ups == SelectSeq(candidates,
                         LAMBDA r : r.status = "up" /\ r.proto = "up")
    IN  IF Len(ups) >= 2 THEN SubSeq(ups, 1, 2)
        ELSE IF Len(candidates) < 2 THEN <<>>
        ELSE SubSeq(candidates, 1, 2)

\* The labelling with the default route ignored.
north_south_ignores_route(pair, oif) ==
    <<pair[1].interface, pair[2].interface>>

\* apply_fault, the north-bound / south-bound labelling: <<north_if, south_if>>.
north_south(pair, oif) ==
    IF oif # None /\ \E i \in 1..Len(pair) : pair[i].interface = oif
    THEN <<oif,
           SelectSeq(pair, LAMBDA r : r.interface # oif)[1].interface>>
    ELSE <<pair[1].interface, pair[2].interface>>

\* iface_connected_network(conn, iface) when the router prints an address.
NetOf(iface) == IfNets[IndexOf(IfNames, iface)]

Fault(name, cmds) == [name |-> name, cmds |-> cmds]

faults_full(n, s, net) ==
    << Fault("remove_default_route", << <<"no ip route 0.0.0.0 0.0.0.0">> >>),
       Fault("wrong_default_next_hop_forced_interface",
             << <<"no ip route 0.0.0.0 0.0.0.0">>,
                <<"ip route 0.0.0.0 0.0.0.0", n, BOGUS_NHOP>> >>),
       Fault("default_out_wrong_interface_south",
             << <<"no ip route 0.0.0.0 0.0.0.0">>,
                <<"ip route 0.0.0.0 0.0.0.0", s, BOGUS_NHOP>> >>),
       Fault("shutdown_northbound", << <<"interface", n>>, <<"shutdown">> >>),
       Fault("remove_northbound_ip",
             << <<"interface", n>>, <<"no ip address">> >>),
       Fault("drop_all_outbound_on_northbound",
             << <<"ip access-list extended CHAOS_OUT">>,
                <<"deny ip any any">>, <<"exit">>, <<"interface", n>>,
                <<"ip access-group CHAOS_OUT out">> >>) >>
    \o (IF net # None
        THEN << Fault("blackhole_south_connected_subnet",
                      << <<"ip route", net, "Null0">> >>) >>
        ELSE <<>>)

\* faults_router2_safe with the access group put on the north-bound
\* interface.
faults_router2_safe_acl_on_north(n, s, net) ==
    << Fault("shutdown_southbound", << <<"interface", s>>, <<"shutdown">> >>),
       Fault("remove_southbound_ip",
             << <<"interface", s>>, <<"no ip address">> >>),
       Fault("drop_all_outbound_on_southbound",
             << <<"ip access-list extended CHAOS_SB_OUT">>,
                <<"deny ip any any">>, <<"exit">>, <<"interface", n>>,
                <<"ip access-group CHAOS_SB_OUT out">> >>) >>
    \o (IF net # None
        THEN << Fault("blackhole_south_connected_subnet",
                      << <<"ip route", net, "Null0">> >>) >>
        ELSE <<>>)

\* faults_router2_safe appending the black-hole route whatever south_net is.
faults_router2_safe_always_blackhole(n, s, net) ==
    << Fault("shutdown_southbound", << <<"interface", s>>, <<"shutdown">> >>),
       Fault("remove_southbound_ip",
             << <<"interface", s>>, <<"no ip address">> >>),
       Fault("drop_all_outbound_on_southbound",
             << <<"ip access-list extended CHAOS_SB_OUT">>,
                <<"deny ip any any">>, <<"exit">>, <<"interface", s>>,
                <<"ip access-group CHAOS_SB_OUT out">> >>),
       Fault("blackhole_south_connected_subnet",
             << <<"ip route", net, "Null0">> >>) >>

faults_router2_safe(n, s, net) ==
    << Fault("shutdown_southbound", << <<"interface", s>>, <<"shutdown">> >>),
       Fault("remove_southbound_ip",
             << <<"interface", s>>, <<"no ip address">> >>),
       Fault("drop_all_outbound_on_southbound",
             << <<"ip access-list extended CHAOS_SB_OUT">>,
                <<"deny ip any any">>, <<"exit">>, <<"interface", s>>,
                <<"ip access-group CHAOS_SB_OUT out">> >>) >>
    \o (IF net # None
        THEN << Fault("blackhole_south_connected_subnet",
                      << <<"ip route", net, "Null0">> >>) >>
        ELSE <<>>)

\* run_sp_routers: the two calls of connect_iou_router / apply_fault.
run_sp_routers_body ==
    << [label |-> "SP-Router2", mode |-> "r2_safe"],
       [label |-> "SP-Router1", mode |-> "full"] >>

ModeOf(label) ==
    run_sp_routers_body[CHOOSE i \in 1..Len(run_sp_routers_body) :
                            run_sp_routers_body[i].label = label].mode

NextRouter(label) ==
    LET i == CHOOSE j \in 1..Len(run_sp_routers_body) :
                 run_sp_routers_body[j].label = label
    IN  IF i < Len(run_sp_routers_body)
        THEN run_sp_routers_body[i + 1].label
        ELSE "return"

RtEvent(d, op, arg) == [dev |-> d, op |-> op, arg |-> arg]

rtLocals == <<data, l3, two, def_oif, north_if, south_if, south_net, fault>>

RtIdle ==
    /\ rt_pc = "idle"
    /\ rt_cur = None
    /\ rt_open = {}
    /\ rt_log = <<>>
    /\ rt_priv = <<>>
    /\ rt_prompt = None
    /\ data = None
    /\ l3 = <<>>
    /\ two = <<>>
    /\ def_oif = None
    /\ north_if = None
    /\ south_if = None
    /\ south_net = None
    /\ fault = <<>>
    /\ rt_exc = None
    /\ ROUTERS_APPLY_CHANGES = TRUE

\* The process starts: the module globals as routers.py sets them (the
\* APPLY_CHANGES flag either way).
RtInit ==
    /\ rt_pc = "run_sp_routers"
    /\ rt_cur = None
    /\ rt_open = {}
    /\ rt_log = <<>>
    /\ rt_priv = <<>>
    /\ rt_prompt = None
    /\ data = None
    /\ l3 = <<>>
    /\ two = <<>>
    /\ def_oif = None
    /\ north_if = None
    /\ south_if = None
    /\ south_net = None
    /\ fault = <<>>
    /\ rt_exc = None
    /\ ROUTERS_APPLY_CHANGES \in BOOLEAN

\* An exception raised outside the try blocks of run_sp_routers.
RtRaise(e) ==
    /\ rt_exc' = e
    /\ rt_pc' = "crashed"

\* An exception raised inside a try block: finally: c.disconnect(), and the
\* exception leaves run_sp_routers.
RtRaiseInTry(e, events) ==
    /\ rt_exc' = e
    /\ rt_pc' = "crashed"
    /\ rt_open' = disconnect(rt_open, rt_cur)
    /\ rt_log' = rt_log \o events
                    \o <<RtEvent(rt_cur, "disconnect", None)>>

\* run_sp_routers up to its first call of connect_iou_router.
RunSpRouters ==
    /\ rt_pc = "run_sp_routers"
    /\ \E r1 \in {None, "ip"}, r2 \in {None, "ip"} :
         IF r1 = None \/ r2 = None
         THEN /\ RtRaise("RuntimeError")
              /\ UNCHANGED rt_cur
         ELSE /\ rt_cur' = run_sp_routers_body[1].label
              /\ rt_pc' = "connect_iou_router"
              /\ UNCHANGED rt_exc
    /\ UNCHANGED <<rt_open, rt_log, rt_priv, rt_prompt, rtLocals,
                   ROUTERS_APPLY_CHANGES>>
    /\ UNCHANGED notRt

\* connect_iou_router: ConnectHandler(**device), then
\* ensure_privileged(conn, enable_secret) outside any try block.
ConnectIouRouter ==
    /\ rt_pc = "connect_iou_router"
    /\ \E connOk \in BOOLEAN, p \in {"#", ">", "$"},
          enable_secret \in {None, "secret"}, ok \in BOOLEAN,
          asked \in BOOLEAN, prompt2 \in {"#", ">"} :
         IF ~connOk
         THEN /\ RtRaise("NetmikoTimeoutException")
              /\ rt_log' = Append(rt_log, RtEvent(rt_cur, "connect", "failed"))
              /\ UNCHANGED <<rt_open, rt_priv, rt_prompt>>
         ELSE /\ rt_open' = rt_open \cup {rt_cur}
              /\ rt_log' = Append(rt_log, RtEvent(rt_cur, "connect", None))
              /\ IF p = "#"
                 THEN /\ rt_priv' = Sought(p, enable_secret # None, "none",
                                           FALSE, None)
                      /\ rt_prompt' = p
                      /\ rt_pc' = "get_l3_ifaces"
                      /\ UNCHANGED rt_exc
                 ELSE IF enable_secret # None
                 THEN IF ~ok
                      THEN /\ rt_priv' = Sought(p, TRUE, "secret", TRUE,
                                                "ValueError")
                           /\ rt_prompt' = p
                           /\ RtRaise("ValueError")
                      ELSE IF prompt2 = "#"
                      THEN /\ rt_priv' = Sought(p, TRUE, "secret", TRUE, None)
                           /\ rt_prompt' = prompt2
                           /\ rt_pc' = "get_l3_ifaces"
                           /\ UNCHANGED rt_exc
                      ELSE /\ rt_priv' = Sought(p, TRUE, "secret", TRUE,
                                                "not privileged")
                           /\ rt_prompt' = prompt2
                           /\ RtRaise("RuntimeError")
                 ELSE IF p = ">"
                 THEN IF prompt2 = "#"
                      THEN /\ rt_priv' = Sought(p, FALSE, "bare", FALSE, None)
                           /\ rt_prompt' = prompt2
                           /\ rt_pc' = "get_l3_ifaces"
                           /\ UNCHANGED rt_exc
                      ELSE /\ rt_priv' = Sought(p, FALSE, "bare", asked,
                                  IF asked THEN "enable not set"
                                           ELSE "not privileged")
                           /\ rt_prompt' = prompt2
                           /\ RtRaise("RuntimeError")
                 ELSE /\ rt_priv' = Sought(p, FALSE, "none", FALSE,
                                           "unexpected prompt")
                      /\ rt_prompt' = p
                      /\ RtRaise("RuntimeError")
    /\ UNCHANGED <<rt_cur, rtLocals, ROUTERS_APPLY_CHANGES>>
    /\ UNCHANGED notRt

\* What send_command(..., use_textfsm=True) can hand back: a list of
\* records, nothing (an empty list or an empty string), or, when the
\* template does not parse the output, the raw text itself.
DataShapes == {"records", "nothing", "text"}

\* apply_fault: l3 = get_l3_ifaces(conn). A non-empty answer is iterated
\* as records ('if data:' then r.get(...)), which a string does not
\* support; only an empty answer reaches the line parsing of the raw table.
GetL3Ifaces ==
    /\ rt_pc = "get_l3_ifaces"
    /\ \E ok \in BOOLEAN, shape \in DataShapes, rows \in IfaceTables :
         /\ shape = "records" => rows # <<>>
         /\ IF ~ok
            THEN /\ RtRaiseInTry("ReadTimeout", <<>>)
                 /\ UNCHANGED <<data, l3>>
            ELSE IF shape = "text"
            THEN /\ RtRaiseInTry("AttributeError", <<>>)
                 /\ data' = shape
                 /\ UNCHANGED l3
            ELSE /\ data' = shape
                 /\ l3' = rows
                 /\ rt_pc' = "pick_two_interfaces"
                 /\ UNCHANGED <<rt_open, rt_log, rt_exc>>
    /\ UNCHANGED <<rt_cur, rt_priv, rt_prompt, two, def_oif, north_if, south_if,
                   south_net, fault, ROUTERS_APPLY_CHANGES>>
    /\ UNCHANGED notRt

\* apply_fault: two = pick_two_interfaces(l3); get_l3_ifaces has returned
\* and its local is gone.
PickTwoInterfaces ==
    /\ rt_pc = "pick_two_interfaces"
    /\ data' = None
    /\ IF pick_two_interfaces(l3) = <<>>
       THEN /\ RtRaiseInTry("RuntimeError",
                  <<RtEvent(rt_cur, "pick_two_interfaces", "RuntimeError")>>)
            /\ UNCHANGED two
       ELSE /\ two' = pick_two_interfaces(l3)
            /\ rt_pc' = "get_default_route_oif"
            /\ UNCHANGED <<rt_open, rt_log, rt_exc>>
    /\ UNCHANGED <<rt_cur, rt_priv, rt_prompt, l3, def_oif, north_if,
                   south_if, south_net, fault, ROUTERS_APPLY_CHANGES>>
    /\ UNCHANGED notRt

\* apply_fault: def_oif = get_default_route_oif(conn) and the labelling.
GetDefaultRouteOif ==
    /\ rt_pc = "get_default_route_oif"
    /\ \E oif \in {None, "Null0"} \cup {l3[i].interface : i \in 1..Len(l3)} :
         /\ def_oif' = oif
         /\ north_if' = north_south(two, oif)[1]
         /\ south_if' = north_south(two, oif)[2]
    /\ rt_pc' = "faults"
    /\ UNCHANGED <<rt_cur, rt_open, rt_log, rt_priv, rt_prompt, data, l3, two,
                   south_net,
                   fault, rt_exc, ROUTERS_APPLY_CHANGES>>
    /\ UNCHANGED notRt

\* apply_fault: south_net, the fault list of the mode, random.choice, and
\* the APPLY_CHANGES test.
ChooseFault ==
    /\ rt_pc = "faults"
    /\ \E net \in {None, NetOf(south_if)} :
         LET faults == IF ModeOf(rt_cur) = "r2_safe"
                       THEN faults_router2_safe(north_if, south_if, net)
                       ELSE faults_full(north_if, south_if, net)
         IN  \E i \in 1..Len(faults) :
               /\ south_net' = net
               /\ fault' = <<faults[i]>>
               /\ rt_log' = Append(rt_log, RtEvent(rt_cur, "fault", None))
    /\ rt_pc' = IF ROUTERS_APPLY_CHANGES THEN "send_config_set"
                                         ELSE "disconnect"
    /\ UNCHANGED <<rt_cur, rt_open, rt_priv, rt_prompt, data, l3, two, def_oif,
                   north_if,
                   south_if, rt_exc, ROUTERS_APPLY_CHANGES>>
    /\ UNCHANGED notRt

\* apply_fault: conn.send_config_set(cmds), which returns or raises r;
\* 'except ReadTimeout' names a class routers.py never imports, so matching
\* any exception of the call against it ends in NameError.
SendConfigSet ==
    /\ rt_pc = "send_config_set"
    /\ \E r \in {None, "ReadTimeout", "ConnectionException"} :
         IF r = None
         THEN /\ rt_log' = Append(rt_log,
                              RtEvent(rt_cur, "send_config_set", None))
                            \o (IF ROUTERS_WRITE_MEM
                                THEN <<RtEvent(rt_cur, "save_config", None)>>
                                ELSE <<>>)
              /\ rt_pc' = "disconnect"
              /\ UNCHANGED <<rt_open, rt_exc>>
         ELSE RtRaiseInTry("NameError",
                  <<RtEvent(rt_cur, "send_config_set", r)>>)
    /\ UNCHANGED <<rt_cur, rt_priv, rt_prompt, rtLocals, ROUTERS_APPLY_CHANGES>>
    /\ UNCHANGED notRt

\* finally: c.disconnect(), and the next router or the return.
RtDisconnect ==
    /\ rt_pc = "disconnect"
    /\ rt_open' = disconnect(rt_open, rt_cur)
    /\ rt_log' = Append(rt_log, RtEvent(rt_cur, "disconnect", None))
    /\ rt_priv' = <<>>
    /\ rt_prompt' = None
    /\ IF NextRouter(rt_cur) # "return"
       THEN /\ rt_cur' = NextRouter(rt_cur)
            /\ rt_pc' = "connect_iou_router"
       ELSE /\ rt_cur' = None
            /\ rt_pc' = "done"
    /\ data' = None
    /\ l3' = <<>>
    /\ two' = <<>>
    /\ def_oif' = None
    /\ north_if' = None
    /\ south_if' = None
    /\ south_net' = None
    /\ fault' = <<>>
    /\ UNCHANGED <<rt_exc, ROUTERS_APPLY_CHANGES>>
    /\ UNCHANGED notRt

RtNext ==
    \/ RunSpRouters
    \/ ConnectIouRouter
    \/ GetL3Ifaces
    \/ PickTwoInterfaces
    \/ GetDefaultRouteOif
    \/ ChooseFault
    \/ SendConfigSet
    \/ RtDisconnect

(***************************************************************************)
(*                              firewalls.py                               *)
(***************************************************************************)
\* The longest gateway list a firewall answers with.
MaxGateways == 2

\* _detect_api_prefix probing /api/v1 first.
prefix_order_v1_first == <<"/api/v1", "/api/v2">>

\* _detect_api_prefix: for prefix in ("/api/v2", "/api/v1")
prefix_order == <<"/api/v2", "/api/v1">>

\* run_firewalls: the two calls of _run_one_firewall.
run_firewalls_body == <<"BRANCH_FW", "APP_FW">>

\* _run_one_firewall: the list random.choice draws from.
firewall_faults ==
    <<"default_gateway_chaos", "disable_outbound_nat",
      "insert_block_all_rule">>

Req(d, method, prefix, resource, ok) ==
    [dev |-> d, method |-> method, prefix |-> prefix, resource |-> resource,
     ok |-> ok]

\* The HTTP statuses a firewall answers a request of a fault with.
HttpStatuses == {200, 400, 500}

\* PfSenseClient.request: the test that makes it raise RuntimeError.
rejected_only_server_errors(status) == status >= 500
rejected(status) == status >= 400

\* A request of a fault function and whether the firewall accepted it.
FaultReq(d, method, prefix, resource, status) ==
    Req(d, method, prefix, resource, status < 400)

\* The probes _detect_api_prefix makes when the host answers the prefixes
\* of the set answering: in order, up to the first that does not raise.
RECURSIVE probes_from(_, _, _)
probes_from(d, i, answering) ==
    IF i > Len(prefix_order) THEN <<>>
    ELSE <<Req(d, "GET", prefix_order[i], "/firewall/rules",
               prefix_order[i] \in answering)>>
         \o (IF prefix_order[i] \in answering THEN <<>>
             ELSE probes_from(d, i + 1, answering))

\* _detect_api_prefix: the prefix returned, None for the RuntimeError.
detect_api_prefix(d, answering) ==
    LET ps == probes_from(d, 1, answering)
    IN  IF ps[Len(ps)].ok THEN ps[Len(ps)].prefix ELSE None

\* The gateway rows a firewall can list at position k.
GwIds == <<"0", "1", "2", "3">>
GwRows(k) ==
    {[name |-> n, default |-> df, disabled |-> ds, id |-> i] :
        n \in {"wangw", "LANGW"}, df \in BOOLEAN, ds \in BOOLEAN,
        i \in {None, GwIds[k]}}
GwLists ==
    UNION {{l \in [1..n -> UNION {GwRows(k) : k \in 1..n}] :
               \A k \in 1..n : l[k] \in GwRows(k)} : n \in 0..MaxGateways}

\* str(g.get("name", "")).upper()
upper(n) == IF n = "wangw" THEN "WANGW" ELSE n

\* The passes with the default flag looked at before the name.
select_default_gateway_flag_first(gws) ==
    LET named == SelectSeq(gws, LAMBDA g : upper(g.name) = "WANGW")
        dflt == SelectSeq(gws, LAMBDA g : g.default)
        enabled == SelectSeq(gws, LAMBDA g : ~g.disabled)
    IN  IF dflt # <<>> THEN <<dflt[1]>>
        ELSE IF named # <<>> THEN <<named[1]>>
        ELSE IF enabled # <<>> THEN <<enabled[1]>>
        ELSE <<>>

\* fault_disable_default_gateway: the three passes over the gateway list;
\* <<>> when none of them selects a gateway.
select_default_gateway(gws) ==
    LET named == SelectSeq(gws, LAMBDA g : upper(g.name) = "WANGW")
        dflt == SelectSeq(gws, LAMBDA g : g.default)
        enabled == SelectSeq(gws, LAMBDA g : ~g.disabled)
    IN  IF named # <<>> THEN <<named[1]>>
        ELSE IF dflt # <<>> THEN <<dflt[1]>>
        ELSE IF enabled # <<>> THEN <<enabled[1]>>
        ELSE <<>>

\* What a GET of a gateway list path can answer.
GwAnswers ==
    {[kind |-> "error", data |-> <<>>], [kind |-> "nodata", data |-> <<>>]}
      \cup {[kind |-> "list", data |-> l] : l \in GwLists}

FwIdle ==
    /\ fw_pc = "idle"
    /\ fw_cur = None
    /\ fw_api = <<>>
    /\ fw_fault = <<>>
    /\ fw_reqs = <<>>
    /\ fw_result = <<>>
    /\ gateways = <<>>
    /\ payload = <<>>
    /\ fw_exc = None
    /\ FIREWALLS_APPLY_CHANGES = TRUE

\* The process starts: the module globals as firewalls.py sets them (the
\* APPLY_CHANGES flag either way).
FwInit ==
    /\ fw_pc = "run_firewalls"
    /\ fw_cur = None
    /\ fw_api = [f \in {"BRANCH_FW", "APP_FW"} |-> None]
    /\ fw_fault = [f \in {"BRANCH_FW", "APP_FW"} |-> None]
    /\ fw_reqs = <<>>
    /\ fw_result = [f \in {"BRANCH_FW", "APP_FW"} |-> "none"]
    /\ gateways = <<>>
    /\ payload = <<>>
    /\ fw_exc = None
    /\ FIREWALLS_APPLY_CHANGES \in BOOLEAN

\* An exception: run_firewalls and its callers have no handler.
FwRaise(e) ==
    /\ fw_exc' = e
    /\ fw_pc' = "crashed"
    /\ fw_result' = IF fw_cur = None THEN fw_result
                    ELSE [fw_result EXCEPT ![fw_cur] = "error"]

\* A fault function returned its APPLIED message.
FwApplied ==
    /\ fw_result' = [fw_result EXCEPT ![fw_cur] = "APPLIED"]
    /\ fw_pc' = "return"
    /\ UNCHANGED fw_exc

\* run_firewalls: the two calls of _build_client, each raising when its
\* firewall lacks the address or both kinds of credentials.
RunFirewalls ==
    /\ fw_pc = "run_firewalls"
    /\ \E branch_ok \in BOOLEAN, app_ok \in BOOLEAN :
         IF ~branch_ok \/ ~app_ok
         THEN /\ fw_exc' = "RuntimeError"
              /\ fw_pc' = "crashed"
              /\ fw_result' = [fw_result EXCEPT
                     ![run_firewalls_body[IF ~branch_ok THEN 1 ELSE 2]] =
                         "error"]
              /\ UNCHANGED fw_cur
         ELSE /\ fw_cur' = run_firewalls_body[1]
              /\ fw_pc' = "_detect_api_prefix"
              /\ UNCHANGED <<fw_exc, fw_result>>
    /\ UNCHANGED <<fw_api, fw_fault, fw_reqs, gateways, payload,
                   FIREWALLS_APPLY_CHANGES>>
    /\ UNCHANGED notFw

\* _run_one_firewall: api = _detect_api_prefix(cli), then random.choice.
DetectApiPrefix ==
    /\ fw_pc = "_detect_api_prefix"
    /\ \E answering \in SUBSET {"/api/v2", "/api/v1"} :
         /\ fw_reqs' = fw_reqs \o probes_from(fw_cur, 1, answering)
         /\ IF detect_api_prefix(fw_cur, answering) = None
            THEN /\ FwRaise("RuntimeError")
                 /\ UNCHANGED <<fw_api, fw_fault>>
            ELSE /\ fw_api' = [fw_api EXCEPT ![fw_cur] =
                                   detect_api_prefix(fw_cur, answering)]
                 /\ \E i \in 1..Len(firewall_faults) :
                      /\ fw_fault' = [fw_fault EXCEPT ![fw_cur] =
                                          firewall_faults[i]]
                      /\ fw_pc' = firewall_faults[i]
                 /\ UNCHANGED <<fw_exc, fw_result>>
    /\ UNCHANGED <<fw_cur, gateways, payload, FIREWALLS_APPLY_CHANGES>>
    /\ UNCHANGED notFw

\* fault_insert_block_all: the interface query sits in a try whose handler
\* passes, so its rejection is not an error of the fault.
FaultInsertBlockAll ==
    /\ fw_pc = "insert_block_all_rule"
    /\ \E ifaces \in HttpStatuses, rule \in HttpStatuses,
          apply \in HttpStatuses :
         LET api == fw_api[fw_cur]
             r1 == FaultReq(fw_cur, "GET", api, "/interfaces", ifaces)
             r2 == FaultReq(fw_cur, "POST", api, "/firewall/rule", rule)
             r3 == FaultReq(fw_cur, "POST", api, "/firewall/apply", apply)
         IN  IF rejected(rule)
             THEN /\ fw_reqs' = fw_reqs \o <<r1, r2>>
                  /\ FwRaise("RuntimeError")
             ELSE IF rejected(apply)
             THEN /\ fw_reqs' = fw_reqs \o <<r1, r2, r3>>
                  /\ FwRaise("RuntimeError")
             ELSE /\ fw_reqs' = fw_reqs \o <<r1, r2, r3>>
                  /\ FwApplied
    /\ UNCHANGED <<fw_cur, fw_api, fw_fault, gateways, payload,
                   FIREWALLS_APPLY_CHANGES>>
    /\ UNCHANGED notFw

\* fault_disable_outbound_nat
FaultDisableOutboundNat ==
    /\ fw_pc = "disable_outbound_nat"
    /\ \E mode \in HttpStatuses, apply \in HttpStatuses :
         LET api == fw_api[fw_cur]
             r1 == FaultReq(fw_cur, "PATCH", api,
                            "/firewall/nat/outbound/mode", mode)
             r2 == FaultReq(fw_cur, "POST", api, "/firewall/apply", apply)
         IN  IF rejected(mode)
             THEN /\ fw_reqs' = Append(fw_reqs, r1)
                  /\ FwRaise("RuntimeError")
             ELSE IF rejected(apply)
             THEN /\ fw_reqs' = fw_reqs \o <<r1, r2>>
                  /\ FwRaise("RuntimeError")
             ELSE /\ fw_reqs' = fw_reqs \o <<r1, r2>>
                  /\ FwApplied
    /\ UNCHANGED <<fw_cur, fw_api, fw_fault, gateways, payload,
                   FIREWALLS_APPLY_CHANGES>>
    /\ UNCHANGED notFw

\* fault_disable_default_gateway with the gateway list gws it obtained
\* after the requests listing.
DisableGateway(gws, listing) ==
    LET api == fw_api[fw_cur]
        gw == select_default_gateway(gws)
    IN  /\ gateways' = gws
        /\ IF gws = <<>>
           THEN /\ fw_reqs' = fw_reqs \o listing
                /\ payload' = <<>>
                /\ FwRaise("RuntimeError")
           ELSE IF gw = <<>>
           THEN /\ fw_reqs' = fw_reqs \o listing
                /\ payload' = <<>>
                /\ FwRaise("AttributeError")
           ELSE \E patch \in HttpStatuses :
                  /\ fw_reqs' = fw_reqs \o listing
                        \o <<FaultReq(fw_cur, "PATCH", api,
                                      "/routing/gateway", patch)>>
                  /\ payload' =
                       <<IF gw[1].id = None
                         THEN [key |-> "name", val |-> gw[1].name,
                               disabled |-> TRUE, apply |-> TRUE]
                         ELSE [key |-> "id", val |-> gw[1].id,
                               disabled |-> TRUE, apply |-> TRUE]>>
                  /\ IF rejected(patch) THEN FwRaise("RuntimeError")
                                        ELSE FwApplied

\* fault_disable_default_gateway
FaultDisableDefaultGateway ==
    /\ fw_pc = "default_gateway_chaos"
    /\ \E a1 \in GwAnswers :
         LET api == fw_api[fw_cur]
             q1 == Req(fw_cur, "GET", api, "/routing/gateways",
                       a1.kind # "error")
         IN  IF a1.kind = "list"
             THEN DisableGateway(a1.data, <<q1>>)
             ELSE \E a2 \in GwAnswers :
                    DisableGateway(a2.data,
                        <<q1, Req(fw_cur, "GET", api, "/routing/gateway",
                                  a2.kind # "error")>>)
    /\ UNCHANGED <<fw_cur, fw_api, fw_fault, FIREWALLS_APPLY_CHANGES>>
    /\ UNCHANGED notFw

\* _run_one_firewall returned: the next call of run_firewalls, or its end.
FwReturn ==
    /\ fw_pc = "return"
    /\ IF After(run_firewalls_body, fw_cur) # "return"
       THEN /\ fw_cur' = After(run_firewalls_body, fw_cur)
            /\ fw_pc' = "_detect_api_prefix"
       ELSE /\ fw_cur' = None
            /\ fw_pc' = "done"
    /\ gateways' = <<>>
    /\ payload' = <<>>
    /\ UNCHANGED <<fw_api, fw_fault, fw_reqs, fw_result, fw_exc,
                   FIREWALLS_APPLY_CHANGES>>
    /\ UNCHANGED notFw

FwNext ==
    \/ RunFirewalls
    \/ DetectApiPrefix
    \/ FaultInsertBlockAll
    \/ FaultDisableOutboundNat
    \/ FaultDisableDefaultGateway
    \/ FwReturn

(***************************************************************************)
(*        optional environment values and the sessions built from them     *)
(***************************************************************************)
\* The optional variables of one device, and the raw values os.getenv can
\* return for each: unset, empty, the words for "no value" in different
\* case and padding, and a real value.
EnvNames == {"USERNAME", "PASSWORD", "ENABLE", "API_KEY"}
EnvRaw == {None, "", "none", " NULL ", "nil", "admin"}

\* str.strip and str.lower on the values above.
strip(v) == CASE v = " NULL " -> "NULL"
              [] OTHER -> v
lower(v) == CASE v = "NULL" -> "null"
              [] OTHER -> v

getenv(name) == environ[name]

\* _env of rollback.py and of firewalls.py (the same text in both).
_env(name) ==
    LET v == getenv(name)
    IN  IF v = None THEN None
        ELSE IF strip(v) = "" \/ lower(strip(v)) \in {"none", "null"}
             THEN None
             ELSE strip(v)

\* env_optional of routers.py.
env_optional(name) ==
    LET v == getenv(name)
    IN  IF v = None THEN None
        ELSE IF strip(v) = "" \/ lower(strip(v)) \in {"none", "null", "nil"}
             THEN None
             ELSE strip(v)

\* Python truth of an optional string, and 'if v: device[key] = v'.
truthy(v) == v # None /\ v # ""
put(v) == IF truthy(v) THEN v ELSE None

Device(u, p, s) == <<[username |-> u, password |-> p, secret |-> s]>>

EnvIdle ==
    /\ env_pc = "idle"
    /\ environ = <<>>
    /\ device = <<>>

EnvInit ==
    /\ env_pc = "start"
    /\ environ \in [EnvNames -> EnvRaw]
    /\ device = <<>>

\* run_switch: the device dictionary it connects with.
RunSwitchDevice ==
    /\ env_pc = "start"
    /\ device' = Device(put(getenv("USERNAME")), put(getenv("PASSWORD")),
                        None)
    /\ env_pc' = "run_switch"
    /\ UNCHANGED environ
    /\ UNCHANGED notEnv

\* run_sp_routers and connect_iou_router.
ConnectIouRouterDevice ==
    /\ env_pc = "start"
    /\ device' = Device(put(env_optional("USERNAME")),
                        put(env_optional("PASSWORD")),
                        put(env_optional("ENABLE")))
    /\ env_pc' = "connect_iou_router"
    /\ UNCHANGED environ
    /\ UNCHANGED notEnv

\* rollback_cisco_switch, rollback_cisco_routers and _netmiko_connect_telnet.
NetmikoConnectTelnetDevice ==
    /\ env_pc = "start"
    /\ device' = Device(put(_env("USERNAME")), put(_env("PASSWORD")),
                        put(_env("ENABLE")))
    /\ env_pc' = "_netmiko_connect_telnet"
    /\ UNCHANGED environ
    /\ UNCHANGED notEnv

\* _build_client and PfSenseClient.__init__: basic authentication when both
\* user and password are present, the API key header when the key is.
BuildClient ==
    /\ env_pc = "start"
    /\ LET api_key == _env("API_KEY")
           user == _env("USERNAME")
           pw == _env("PASSWORD")
       IN  IF ~truthy(api_key) /\ ~(truthy(user) /\ truthy(pw))
           THEN /\ env_pc' = "RuntimeError"
                /\ device' = <<>>
           ELSE /\ env_pc' = "_build_client"
                /\ device' = Device(
                       IF truthy(user) /\ truthy(pw) THEN user ELSE None,
                       IF truthy(user) /\ truthy(pw) THEN pw ELSE None,
                       put(api_key))
    /\ UNCHANGED environ
    /\ UNCHANGED notEnv

EnvNext ==
    \/ RunSwitchDevice
    \/ ConnectIouRouterDevice
    \/ NetmikoConnectTelnetDevice
    \/ BuildClient

(***************************************************************************)
(*                 switch.py: the drawing of the VLAN plan                 *)
(***************************************************************************)
MGMT_VLAN == 1
VLAN_MIN == 2
TRUNK_ALLOWED_MIN == 3
SET_NATIVE_VLAN_ON_TRUNK == TRUE

\* The model's VLAN_MAX (4094 in switch.py) and TRUNK_ALLOWED_MAX (12 in
\* switch.py), and the longest list of eligible ports.
MaxVlan == 6
MaxAllowed == 4
MaxConnected == 5

\* _rand_vlan drawing from the whole range, excluded ids included.
rand_vlan_ignores_exclude(exclude) == VLAN_MIN..MaxVlan

\* _rand_vlan(exclude): the ids it can return, by one of its fifty random
\* draws or by its scan of the range; empty when it raises RuntimeError.
rand_vlan(exclude) == {v \in VLAN_MIN..MaxVlan : v \notin exclude}

\* sorted(vlans)
RECURSIVE sorted(_)
sorted(S) ==
    IF S = {} THEN <<>>
    ELSE LET m == CHOOSE x \in S : \A y \in S : x <= y
         IN  <<m>> \o sorted(S \ {m})

exclude_vlans == {MGMT_VLAN}

PlanEntry(port, mode, access_vlan, allowed, native) ==
    <<[port |-> port, mode |-> mode, access_vlan |-> access_vlan,
       allowed |-> allowed, native |-> native]>>

VlIdle ==
    /\ vl_pc = "idle"
    /\ vl_connected = <<>>
    /\ targets = <<>>
    /\ vl_plan = <<>>
    /\ entry = <<>>
    /\ allowed_count = 0
    /\ vlans = {}
    /\ iters = 0

\* run_switch has found the eligible connected ports (a non-empty list).
VlInit ==
    /\ vl_pc = "shuffle"
    /\ vl_connected \in
         {[i \in 1..n |-> [port |-> PortNames[i], status |-> "connected"]] :
             n \in 1..MaxConnected}
    /\ targets = <<>>
    /\ vl_plan = <<>>
    /\ entry = <<>>
    /\ allowed_count = 0
    /\ vlans = {}
    /\ iters = 0

VlRaise ==
    /\ vl_pc' = "RuntimeError"
    /\ UNCHANGED <<vl_plan, entry>>

\* random.shuffle(connected); targets = connected[:MAX_PORTS]
VlTargets ==
    /\ vl_pc = "shuffle"
    /\ \E sh \in Shuffles(vl_connected) :
         /\ vl_connected' = sh
         /\ targets' = Truncate(sh)
    /\ vl_pc' = "for"
    /\ UNCHANGED <<vl_plan, entry, allowed_count, vlans, iters>>
    /\ UNCHANGED notVl

\* for iface in targets: the draw of the mode; an access entry is drawn and
\* appended, a trunk entry starts with the draw of its length and the call
\* of _rand_vlan_list.
VlNextTarget ==
    /\ vl_pc = "for"
    /\ IF Len(vl_plan) = Len(targets)
       THEN /\ vl_pc' = "done"
            /\ UNCHANGED <<vl_plan, entry, allowed_count, vlans, iters>>
       ELSE \E trunk \in BOOLEAN :
              IF trunk
              THEN /\ allowed_count' \in TRUNK_ALLOWED_MIN..MaxAllowed
                   /\ vlans' = {}
                   /\ iters' = 0
                   /\ vl_pc' = "while"
                   /\ entry' = <<>>
                   /\ UNCHANGED vl_plan
              ELSE /\ IF rand_vlan(exclude_vlans) = {}
                      THEN VlRaise
                      ELSE \E access_vlan \in rand_vlan(exclude_vlans) :
                             /\ entry' = PlanEntry(
                                    targets[Len(vl_plan) + 1].port, "access",
                                    access_vlan, <<>>, None)
                             /\ vl_plan' = Append(vl_plan,
                                    [port |-> targets[Len(vl_plan) + 1].port,
                                     mode |-> "access"])
                             /\ vl_pc' = "for"
                   /\ UNCHANGED <<allowed_count, vlans, iters>>
    /\ UNCHANGED <<vl_connected, targets>>
    /\ UNCHANGED notVl

\* _rand_vlan_list: one test of 'while len(vlans) < count' and, when it
\* holds, one vlans.add(_rand_vlan(exclude | vlans)).
VlRandVlanList ==
    /\ vl_pc = "while"
    /\ IF Cardinality(vlans) < allowed_count
       THEN IF rand_vlan(exclude_vlans \cup vlans) = {}
            THEN /\ VlRaise
                 /\ UNCHANGED <<vlans, iters>>
            ELSE /\ \E v \in rand_vlan(exclude_vlans \cup vlans) :
                      vlans' = vlans \cup {v}
                 /\ iters' = iters + 1
                 /\ vl_pc' = "while"
                 /\ UNCHANGED <<vl_plan, entry>>
       ELSE /\ vl_pc' = "native"
            /\ UNCHANGED <<vl_plan, entry, vlans, iters>>
    /\ UNCHANGED <<vl_connected, targets, allowed_count>>
    /\ UNCHANGED notVl

\* allowed = sorted(vlans), the return of _rand_vlan_list, whose locals are
\* gone; native = _rand_vlan(exclude_vlans | set(allowed)) when
\* SET_NATIVE_VLAN_ON_TRUNK; plan.append(...).
VlNative ==
    /\ vl_pc = "native"
    /\ LET port == targets[Len(vl_plan) + 1].port
           appended == Append(vl_plan, [port |-> port, mode |-> "trunk"])
       IN  IF ~SET_NATIVE_VLAN_ON_TRUNK
           THEN /\ entry' = PlanEntry(port, "trunk", None, sorted(vlans), None)
                /\ vl_plan' = appended
                /\ vl_pc' = "for"
           ELSE IF rand_vlan(exclude_vlans \cup vlans) = {}
           THEN VlRaise
           ELSE \E native \in rand_vlan(exclude_vlans \cup vlans) :
                  /\ entry' = PlanEntry(port, "trunk", None, sorted(vlans),
                                        native)
                  /\ vl_plan' = appended
                  /\ vl_pc' = "for"
    /\ vlans' = {}
    /\ iters' = 0
    /\ UNCHANGED <<vl_connected, targets, allowed_count>>
    /\ UNCHANGED notVl

VlNext ==
    \/ VlTargets
    \/ VlNextTarget
    \/ VlRandVlanList
    \/ VlNative

(***************************************************************************)
(*                            specifications                               *)
(***************************************************************************)
Init == RbInit /\ SwIdle /\ RtIdle /\ FwIdle /\ EnvIdle /\ VlIdle
Next == RbNext
Spec == Init /\ [][Next]_vars

\* The four waits of rollback.py, each called with the arguments its call
\* site passes, against a network in which what the wait polls for starts
\* to hold T seconds after the call and holds from then on (or is free).
wait_calls ==
    << [wait |-> "wait_down", stage |-> "rollback_firewalls",
        dev |-> "BRANCH_FW"],
       [wait |-> "wait_up", stage |-> "rollback_firewalls",
        dev |-> "BRANCH_FW"],
       [wait |-> "_wait_for_ens4_gateway", stage |-> "_wait_for_ens4_gateway",
        dev |-> None],
       [wait |-> "_wait_for_tcp", stage |-> "rollback_cisco_routers",
        dev |-> "SP-ROUTER1"] >>

InitWait ==
    /\ \E i \in 1..Len(wait_calls) :
         /\ pc = wait_calls[i].wait
         /\ stage = wait_calls[i].stage
         /\ cur = wait_calls[i].dev
         /\ wend = Timeout(wait_calls[i].wait)
         /\ reachAt \in {<<>>} \cup
                {<<t>> : t \in 0..(Timeout(wait_calls[i].wait) - 1)}
    /\ log = <<>>
    /\ outcome = [f \in {"BRANCH_FW", "APP_FW"} |-> "none"]
    /\ boot_before = Unset
    /\ boot_after = Unset
    /\ rebootErr = FALSE
    /\ dropped = FALSE
    /\ up = FALSE
    /\ wnow = 0
    /\ open = {}
    /\ prompt = None
    /\ exc = None
    /\ pingOk = FALSE
    /\ wlast = <<>>
    /\ priv = <<>>
    /\ SwIdle
    /\ RtIdle
    /\ FwIdle
    /\ EnvIdle
    /\ VlIdle

NextWait ==
    \/ WaitTcpDown
    \/ WaitTcpUp
    \/ WaitForEns4Gateway
    \/ WaitForTcp

SpecWait == InitWait /\ [][NextWait]_vars

RbIdle ==
    /\ pc = "idle"
    /\ stage = None
    /\ cur = None
    /\ log = <<>>
    /\ outcome = <<>>
    /\ boot_before = Unset
    /\ boot_after = Unset
    /\ rebootErr = FALSE
    /\ dropped = FALSE
    /\ up = FALSE
    /\ wnow = 0
    /\ wend = 0
    /\ open = {}
    /\ prompt = None
    /\ exc = None
    /\ pingOk = FALSE
    /\ wlast = <<>>
    /\ reachAt = <<>>
    /\ priv = <<>>

\* The process runs run_switch (break_things -s, -a).
InitSwitch == RbIdle /\ SwInit /\ RtIdle /\ FwIdle /\ EnvIdle /\ VlIdle
SpecSwitch == InitSwitch /\ [][SwNext]_vars

\* The process runs run_sp_routers (break_things -r).
InitRouters == RbIdle /\ SwIdle /\ RtInit /\ FwIdle /\ EnvIdle /\ VlIdle
SpecRouters == InitRouters /\ [][RtNext]_vars

\* The process runs run_firewalls (break_things -f).
InitFirewalls == RbIdle /\ SwIdle /\ RtIdle /\ FwInit /\ EnvIdle /\ VlIdle
SpecFirewalls == InitFirewalls /\ [][FwNext]_vars

\* The process runs one of the four: rollback_all, run_switch,
\* run_sp_routers or run_firewalls.
InitRun == Init \/ InitSwitch \/ InitRouters \/ InitFirewalls
NextRun == RbNext \/ SwNext \/ RtNext \/ FwNext
SpecRun == InitRun /\ [][NextRun]_vars

\* Each module reads the optional credentials of a device and builds the
\* session with them.
InitEnv == RbIdle /\ SwIdle /\ RtIdle /\ FwIdle /\ EnvInit /\ VlIdle
SpecEnv == InitEnv /\ [][EnvNext]_vars

\* run_switch plans the change of each target port.
InitVlan == RbIdle /\ SwIdle /\ RtIdle /\ FwIdle /\ EnvIdle /\ VlInit
SpecVlan == InitVlan /\ [][VlNext]_vars

(***************************************************************************)
(*                     properties of rollback.py (Spec)                    *)
(***************************************************************************)
FW == {"BRANCH_FW", "APP_FW"}
Routers == {"SP-ROUTER1", "SP-ROUTER2"}
Terminated == pc \in {"done", "crashed"}

\* The operations issued to device d, in the order of their issue.
OpsOf(d) ==
    LET evs == SelectSeq(log, LAMBDA e : e.dev = d)
    IN  [i \in 1..Len(evs) |-> evs[i].op]

IsPrefix(s, t) == Len(s) <= Len(t) /\ \A i \in 1..Len(s) : s[i] = t[i]

\* C1: a firewall restore reaches 'reboot successful' only if the wait for
\* the management port to return succeeded and the token captured before
\* the reboot is empty or differs from the token captured after it; tokens
\* that are both known and equal, with the port back, end in the failure
\* outcome.
C1_SuccessOnlyIfReturnedAndRebooted ==
    pc = "restore_return" =>
        /\ outcome[cur] = "success" =>
              up /\ (boot_before = "" \/ boot_before # boot_after)
        /\ (up /\ boot_before # "" /\ boot_after # "" /\ boot_before = boot_after)
              => outcome[cur] = "same_boot"

C1_Witness ==
    /\ pc = "restore_return"
    /\ up
    /\ boot_before = "141234"
    /\ boot_after = "141234"
    /\ outcome[cur] = "same_boot"

\* C2: when the restore of one firewall fails fatally (baseline missing or
\* configuration push failed), the run still attempts the other firewall,
\* the switch stage and the router stage before it ends.
C2_FailureIsolated ==
    \A f \in FW :
        (Terminated /\ outcome[f] = "error") =>
            /\ \A g \in FW : HasDev(g)
            /\ HasEvent(None, "rollback_cisco_switch")
            /\ HasEvent(None, "rollback_cisco_routers")

\* The place of an operation in the fixed order of the topology.
Rank(e) ==
    CASE e.dev = "BRANCH_FW" -> 1
      [] e.dev = "APP_FW" -> 2
      [] e.dev = "SWITCH1" -> 3
      [] e.dev = "GATEWAY" -> 4
      [] e.dev = "SP-ROUTER1" -> 5
      [] e.dev = "SP-ROUTER2" -> 6
      [] e.op = "rollback_firewalls" -> 1
      [] e.op = "rollback_cisco_switch" -> 3
      [] e.op = "rollback_cisco_routers" -> 5
      [] OTHER -> 7

\* C3: the operations of a run are issued in the order BRANCH_FW, APP_FW,
\* SWITCH1, gateway wait, SP-ROUTER1, SP-ROUTER2: no operation of an earlier
\* device or stage is issued after one of a later device or stage, and no
\* session of an earlier device is still open then.
C3_FixedOrder ==
    /\ \A i \in 1..Len(log) - 1 : Rank(log[i]) <= Rank(log[i + 1])
    /\ \A d \in open : pc = "crashed" \/ d = cur

C3_Witness ==
    /\ pc = "done"
    /\ \A d \in FW \cup Routers \cup {"SWITCH1", "GATEWAY"} : HasDev(d)

\* C4: a router is contacted (TCP probe, session, command) only after the
\* switch stage has ended and a ping of the gateway has succeeded; a run
\* that ends in the gateway wait ends with TimeoutError, without a
\* successful ping and without any router contacted.
C4_RoutersOnlyAfterGateway ==
    /\ (\E r \in Routers : HasDev(r) \/ cur = r) =>
          /\ pingOk
          /\ HasEvent(None, "rollback_cisco_switch")
          /\ "SWITCH1" \notin open
    /\ (pc = "crashed" /\ stage = "_wait_for_ens4_gateway") =>
          /\ exc = "TimeoutError"
          /\ ~pingOk
          /\ \A r \in Routers : ~HasDev(r)
    /\ stage \in {"rollback_cisco_routers", "complete"} => pingOk

C4_Witness ==
    /\ pc = "crashed"
    /\ stage = "_wait_for_ens4_gateway"
    /\ exc = "TimeoutError"
    /\ HasDev("GATEWAY")

\* C8: a firewall restore whose management port does not return ends in
\* failure with the boot token captured once only (no re-capture, no
\* comparison), and the run goes on to the next device: APP_FW after
\* BRANCH_FW, the switch stage after APP_FW.
C8_NoReturnEndsRestoreOnly ==
    /\ (pc = "restore_return" /\ ~up) =>
          /\ outcome[cur] = "no_return"
          /\ boot_after = Unset
          /\ ~HasEvent(cur, "boot_after")
    /\ \A f \in FW : outcome[f] = "no_return" =>
          /\ ~HasEvent(f, "boot_after")
          /\ exc = None \/ HasDev(After(firewall_order, f))
                        \/ HasEvent(None, "rollback_cisco_switch")
    /\ (Terminated /\ outcome["BRANCH_FW"] = "no_return") => HasDev("APP_FW")
    /\ (Terminated /\ outcome["APP_FW"] = "no_return") =>
          HasEvent(None, "rollback_cisco_switch")

C8_Witness ==
    /\ outcome["BRANCH_FW"] = "no_return"
    /\ HasEvent("APP_FW", "scp")

\* The steps of a firewall restore in the order the state machine gives.
C9_Steps ==
    <<"exists", "scp", "boot_before", "reboot", "wait_down", "wait_up",
      "boot_after">>

\* C9: the operations of every firewall restore are issued in the order
\* baseline check, push, capture of the token, restart, wait for the drop,
\* wait for the return, re-capture: what has been issued is always a
\* prefix of that sequence, a failed check or push is followed by nothing,
\* and the 'before' token is held when the restart is issued.
C9_RestoreStepOrder ==
    /\ \A f \in FW : IsPrefix(OpsOf(f), C9_Steps)
    /\ \A f \in FW : outcome[f] = "error" =>
          OpsOf(f)[Len(OpsOf(f))] \in {"exists", "scp"}
    /\ \A f \in FW : (HasEvent(f, "reboot") /\ cur = f) => boot_before \in BootTokens

C9_Witness ==
    /\ pc = "restore_return"
    /\ OpsOf(cur) = C9_Steps

\* C10: once the restart command has been issued, the restore always goes
\* on to the wait for the return, whatever the exit status of the restart
\* command and whether or not the drop was observed: a restore that is past
\* its two waits has made the wait for the return.
C10_RebootErrorAndNoDropNotFatal ==
    \A f \in FW :
        (HasEvent(f, "reboot") /\ ~(cur = f /\ pc \in {"wait_down", "wait_up"}))
            => HasEvent(f, "wait_up")

C10_Witness ==
    /\ pc = "restore_return"
    /\ rebootErr
    /\ ~dropped
    /\ outcome[cur] = "success"

\* C11: a firewall restore whose baseline file is missing ends with
\* FileNotFoundError and has issued nothing to that firewall: no copy, no
\* boot-token query, no restart.
C11_MissingBaselineSendsNothing ==
    \A f \in FW :
        (exc = "FileNotFoundError" /\ outcome[f] = "error") =>
            /\ pc = "crashed"
            /\ OpsOf(f) = <<"exists">>

C11_Witness ==
    /\ exc = "FileNotFoundError"
    /\ outcome["APP_FW"] = "error"
    /\ HasEvent("BRANCH_FW", "reboot")

\* C12 as claimed: a restore that ends in success had its port back and a
\* token after the restart that differs from the token before it.
C12_SuccessMeansTokenChanged ==
    (pc = "restore_return" /\ outcome[cur] = "success") =>
        up /\ boot_before # boot_after

\* C12 amended: a restore that ends in success had its port back, and its
\* two tokens were not both known and equal: they differ, or at least one
\* of them is empty (unknown), in which case no change was observed.
C12_SuccessMeansNotKnownEqual ==
    (pc = "restore_return" /\ outcome[cur] = "success") =>
        /\ up
        /\ HasEvent(cur, "boot_after")
        /\ boot_before = "" \/ boot_after = "" \/ boot_before # boot_after

C12_Witness ==
    /\ pc = "restore_return"
    /\ outcome[cur] = "success"
    /\ boot_before = ""
    /\ boot_after = ""

\* interval_s of each wait, and the longest one probe of it can take.
Interval(w) ==
    CASE w = "wait_down" -> DOWN_INTERVAL
      [] w = "wait_up" -> UP_INTERVAL
      [] w = "_wait_for_ens4_gateway" -> GW_INTERVAL
      [] w = "_wait_for_tcp" -> TCP_INTERVAL

ProbeMax(w) ==
    IF w = "_wait_for_ens4_gateway" THEN PING_WAIT ELSE TCP_TIMEOUT

\* C13 as claimed: a wait has returned or given up no later than
\* timeout_s + interval_s after it started, probe time counted.
C13_WaitWithinTimeoutPlusInterval ==
    wlast # <<>> =>
        wlast[1].took <= Timeout(wlast[1].wait) + Interval(wlast[1].wait)

\* C13 amended: a wait has returned or given up before timeout_s +
\* interval_s + the longest time one probe can take; a wait that succeeded
\* did so before timeout_s + that probe time.
C13_WaitWithinTimeoutIntervalAndProbe ==
    wlast # <<>> =>
        /\ wlast[1].took < Timeout(wlast[1].wait) + Interval(wlast[1].wait)
                             + ProbeMax(wlast[1].wait)
        /\ wlast[1].ok =>
             wlast[1].took < Timeout(wlast[1].wait) + ProbeMax(wlast[1].wait)

C13_Witness ==
    /\ wlast # <<>>
    /\ wlast[1].wait = "wait_up"
    /\ ~wlast[1].ok
    /\ wlast[1].took = UP_WAIT + UP_INTERVAL + TCP_TIMEOUT - 1
    /\ cur = "APP_FW"

\* C14 as claimed: when what a wait polls for starts to hold at T <
\* timeout_s and holds from then on, the wait returns success.
C14_ReachableBeforeTimeoutSucceeds ==
    (wlast # <<>> /\ reachAt # <<>>) => wlast[1].ok

\* C14 amended: when what a wait polls for starts to hold at T and holds
\* from then on, and T <= timeout_s - interval_s - the longest probe time,
\* the wait returns success; a wait that succeeds does so no earlier than T
\* and within one interval and two probe times after T.
C14_ReachableEarlyEnoughSucceeds ==
    (wlast # <<>> /\ reachAt # <<>>) =>
        /\ reachAt[1] + Interval(wlast[1].wait) + ProbeMax(wlast[1].wait)
               <= Timeout(wlast[1].wait)
             => wlast[1].ok
        /\ wlast[1].ok =>
             /\ wlast[1].took >= reachAt[1]
             /\ wlast[1].took < reachAt[1] + Interval(wlast[1].wait)
                                  + 2 * ProbeMax(wlast[1].wait)

C14_Witness ==
    /\ wlast # <<>>
    /\ wlast[1].wait = "_wait_for_tcp"
    /\ wlast[1].ok
    /\ reachAt = <<100>>
    /\ wlast[1].took = 104

\* C15: every CLI session that was opened has been disconnected when the
\* operation that opened it has returned or raised.
C15_SessionsClosedOnEveryExit ==
    Terminated => open = {}

\* The sessions the rollback log shows: connections per device, and
\* whether anything was issued to a device after its disconnect.
Connects(d) ==
    Cardinality({i \in 1..Len(log) : log[i].dev = d /\ log[i].op = "connect"})

UsedAfterDisconnect(d) ==
    \E i \in 1..Len(log), j \in 1..Len(log) :
        /\ i < j
        /\ log[i].dev = d /\ log[i].op = "disconnect"
        /\ log[j].dev = d

RtHas(d, op) ==
    \E i \in 1..Len(rt_log) : rt_log[i].dev = d /\ rt_log[i].op = op

RtConnects(d) ==
    Cardinality({i \in 1..Len(rt_log) :
                    rt_log[i].dev = d /\ rt_log[i].op = "connect"})

\* C16: at most one session is open at a time and it is that of the device
\* being worked on; a device is connected to once and nothing is issued to
\* it after its disconnect; in run_sp_routers SP-Router2 is disconnected
\* before SP-Router1 is opened, and in rollback_cisco_routers SP-ROUTER1 is
\* disconnected before SP-ROUTER2 is contacted.
C16_OneSessionAtATime ==
    /\ Cardinality(open) <= 1
    /\ open \subseteq {cur}
    /\ \A d \in {"SWITCH1"} \cup Routers :
         Connects(d) <= 1 /\ ~UsedAfterDisconnect(d)
    /\ HasDev("SP-ROUTER2") => "SP-ROUTER1" \notin open
    /\ Cardinality(rt_open) <= 1
    /\ rt_open \subseteq {rt_cur}
    /\ \A d \in {"SP-Router1", "SP-Router2"} : RtConnects(d) <= 1
    /\ RtHas("SP-Router1", "connect") =>
         /\ RtHas("SP-Router2", "disconnect")
         /\ "SP-Router2" \notin rt_open

C16_Witness ==
    /\ rt_open = {"SP-Router1"}
    /\ RtHas("SP-Router2", "send_config_set")
    /\ RtHas("SP-Router2", "disconnect")
    /\ north_if # None

\* The rule of privilege escalation on one opening of a CLI session.
PrivilegeRule(h) ==
    /\ h.prompt = "#" => h.method = "none"
    /\ (h.prompt # "#" /\ h.secret) => h.method = "secret"
    /\ (h.prompt # "#" /\ ~h.secret) => h.method = "bare"
    /\ (h.asked /\ ~h.secret) => h.err = "enable not set"

\* C18: on each of the three CLI open paths (rollback, router fault run,
\* switch fault run) a prompt ending in '#' means no escalation; otherwise
\* the enable secret is used when one is supplied, else a bare enable is
\* tried, and a password prompt without a secret is the error that names the
\* missing enable credential.
C18_PrivilegeRuleOnEveryOpenPath ==
    /\ priv # <<>> => PrivilegeRule(priv[1])
    /\ rt_priv # <<>> => PrivilegeRule(rt_priv[1])
    /\ sw_priv # <<>> => PrivilegeRule(sw_priv[1])

\* C29: a CLI session that has been handed back by its open path, and on
\* which the commands of the restore or of the fault are therefore sent, is
\* at a prompt ending in '#': in the rollback, in the router fault run and
\* in the switch fault run.
C29_CommandsOnlyOnPrivilegedSession ==
    /\ pc \in {"terminal length 0", "configure replace", "find_prompt",
               "write memory"} => prompt = "#"
    /\ rt_pc \in {"get_l3_ifaces", "pick_two_interfaces",
                  "get_default_route_oif", "faults", "send_config_set"} =>
           rt_prompt = "#"
    /\ sw_pc \in {"detect", "query", "select", "create_vlans", "configure"} =>
           sw_prompt = "#"

\* C28: the completion message is logged only by a run in which every
\* firewall restore ended in the 'reboot successful' outcome: no run in
\* which a firewall did not return, or returned with an unchanged boot
\* time, ends with 'Rollback Complete!'.
C28_CompleteMeansEveryRestoreSucceeded ==
    HasEvent(None, "Rollback Complete!") =>
        \A f \in FW : outcome[f] = "success"

(***************************************************************************)
(*                 properties of routers.py (SpecRouters)                  *)
(***************************************************************************)
NonLoopback(r) == \E k \in 1..Len(IfNames) : r.interface = IfNames[k]
AddressBearing(r) == \E k \in 1..Len(IfAddrs) : r.ipaddr = IfAddrs[k]
UpUp(r) == r.status = "up" /\ r.proto = "up"
Cands == {i \in 1..Len(l3) : NonLoopback(l3[i]) /\ AddressBearing(l3[i])}
PickFailed == RtHas(rt_cur, "pick_two_interfaces")

\* C19: pick_two_interfaces returns exactly two rows, both non-loopback and
\* address-bearing, in the order of its input, both up/up whenever two such
\* up/up rows exist; it raises exactly when fewer than two non-loopback
\* address-bearing rows exist.
C19_PickTwoInterfaces ==
    /\ two # <<>> =>
         /\ Len(two) = 2
         /\ \E i \in Cands, j \in Cands :
              i < j /\ l3[i] = two[1] /\ l3[j] = two[2]
         /\ Cardinality({i \in Cands : UpUp(l3[i])}) >= 2 =>
              UpUp(two[1]) /\ UpUp(two[2])
    /\ PickFailed => Cardinality(Cands) < 2
    /\ rt_pc \in {"get_default_route_oif", "faults", "send_config_set"} =>
         two # <<>> /\ Cardinality(Cands) >= 2

C19_Witness ==
    /\ two # <<>>
    /\ Len(l3) = 3
    /\ Cands = {1, 2, 3}
    /\ ~UpUp(l3[1])
    /\ two = <<l3[2], l3[3]>>

\* C20: in apply_fault, when the default-route interface is one of the two
\* classified interfaces it is the north-bound one and the other is the
\* south-bound one; otherwise the first is north-bound and the second
\* south-bound; either way the two labels name the two interfaces, one each.
C20_NorthSouthLabelling ==
    north_if # None =>
        LET names == {two[1].interface, two[2].interface}
        IN  /\ def_oif \in names =>
                 north_if = def_oif /\ south_if \in names \ {def_oif}
            /\ def_oif \notin names =>
                 north_if = two[1].interface /\ south_if = two[2].interface
            /\ {north_if, south_if} = names
            /\ north_if # south_if

C20_Witness ==
    /\ north_if # None
    /\ def_oif = two[2].interface
    /\ north_if = two[2].interface
    /\ south_if = two[1].interface

\* The fault list apply_fault builds for the router it is working on.
FaultList ==
    IF ModeOf(rt_cur) = "r2_safe"
    THEN faults_router2_safe(north_if, south_if, south_net)
    ELSE faults_full(north_if, south_if, south_net)

HasBlackhole(fl) ==
    \E i \in 1..Len(fl) : fl[i].name = "blackhole_south_connected_subnet"

\* C21: in both modes the fault list is non-empty, it holds the black-hole
\* route of the south-bound subnet exactly when that subnet is known, and
\* the fault chosen is a member of the list; a chosen black-hole route
\* names the known subnet.
C21_FaultListAndChoice ==
    fault # <<>> =>
        /\ Len(FaultList) >= 3
        /\ HasBlackhole(FaultList) <=> south_net # None
        /\ \E i \in 1..Len(FaultList) : FaultList[i] = fault[1]
        /\ fault[1].name = "blackhole_south_connected_subnet" =>
             /\ south_net = NetOf(south_if)
             /\ fault[1].cmds = << <<"ip route", south_net, "Null0">> >>

C21_Witness ==
    /\ fault # <<>>
    /\ rt_cur = "SP-Router1"
    /\ fault[1].name = "blackhole_south_connected_subnet"
    /\ Len(FaultList) = 7
    /\ RtHas("SP-Router2", "send_config_set")

\* The commands that touch only the south-bound interface s, the access
\* list CHAOS_SB_OUT, or a Null0 route of the south-bound subnet net.
SouthOnlyCommands(s, net) ==
    {<<"interface", s>>, <<"shutdown">>, <<"no ip address">>,
     <<"ip access-list extended CHAOS_SB_OUT">>, <<"deny ip any any">>,
     <<"exit">>, <<"ip access-group CHAOS_SB_OUT out">>}
      \cup (IF net # None THEN {<<"ip route", net, "Null0">>} ELSE {})
DefaultRouteCommands ==
    {"ip route 0.0.0.0 0.0.0.0", "no ip route 0.0.0.0 0.0.0.0"}

\* C31: in r2_safe mode the north-bound and south-bound names differ, and
\* no command of any fault of the list names the north-bound interface or
\* changes the default route: each is a command on the south-bound
\* interface, on the access list CHAOS_SB_OUT, or the Null0 route of the
\* south-bound subnet.
C31_Router2FaultsSpareNorthbound ==
    (fault # <<>> /\ ModeOf(rt_cur) = "r2_safe") =>
        /\ north_if # south_if
        /\ \A i \in 1..Len(FaultList) :
             \A j \in 1..Len(FaultList[i].cmds) :
                LET cmd == FaultList[i].cmds[j]
                IN  /\ cmd \in SouthOnlyCommands(south_if, south_net)
                    /\ \A k \in 1..Len(cmd) : cmd[k] # north_if
                    /\ cmd[1] \notin DefaultRouteCommands

\* The access-list fault sent to SP-Router2 whose default route leaves by
\* the second of its two interfaces.
C31_Witness ==
    /\ fault # <<>>
    /\ rt_cur = "SP-Router2"
    /\ fault[1].name = "drop_all_outbound_on_southbound"
    /\ two # <<>>
    /\ north_if = two[2].interface
    /\ south_if = two[1].interface
    /\ south_net # None
    /\ RtHas("SP-Router2", "send_config_set")

\* C22: with the APPLY_CHANGES flag of a module off, that module makes no
\* mutating operation: no POST or PATCH to a firewall, no configuration
\* command to a router, no VLAN or port command to the switch.
C22_DryRunMutatesNothing ==
    /\ ~FIREWALLS_APPLY_CHANGES =>
         \A i \in 1..Len(fw_reqs) : fw_reqs[i].method = "GET"
    /\ ~ROUTERS_APPLY_CHANGES =>
         \A i \in 1..Len(rt_log) : rt_log[i].op # "send_config_set"
    /\ ~APPLY_CHANGES => sent = <<>>

\* C26: whatever the shape of the structured answer (records, nothing, or
\* the raw text), get_l3_ifaces returns rows: it never ends in the error
\* of treating the answer as records when it is not.
C26_BothShapesTolerated ==
    data \in DataShapes => ~(rt_pc = "crashed" /\ rt_exc = "AttributeError")

\* C30: a read timeout while the commands of the fault are sent is not an
\* error of the run: no exception leaves run_sp_routers because of it, and
\* when it happened on SP-Router2 the run goes on to connect to SP-Router1.
C30_ReadTimeoutIsExpected ==
    \A i \in 1..Len(rt_log) :
        (rt_log[i].op = "send_config_set" /\ rt_log[i].arg = "ReadTimeout") =>
            /\ rt_exc = None
            /\ (rt_log[i].dev = "SP-Router2" /\ rt_pc \in {"done", "crashed"})
                 => RtHas("SP-Router1", "connect")

(***************************************************************************)
(*                properties of firewalls.py (SpecFirewalls)               *)
(***************************************************************************)
\* The detection probes made to firewall d, and its other requests.
ProbesOf(d) ==
    SelectSeq(fw_reqs,
              LAMBDA q : q.dev = d /\ q.method = "GET"
                         /\ q.resource = "/firewall/rules")
FaultReqsOf(d) ==
    SelectSeq(fw_reqs,
              LAMBDA q : q.dev = d /\ q.resource # "/firewall/rules")

\* C17: the detection probes /api/v2 first and /api/v1 second and returns
\* the first prefix whose probe does not error: /api/v2 when it answers,
\* /api/v1 when only that answers; when neither answers the run ends with a
\* RuntimeError and no fault was chosen or requested for that firewall;
\* every fault request uses the detected prefix.
C17_PrefixDetection ==
    \A d \in FW :
        LET ps == ProbesOf(d)
        IN  /\ Len(ps) <= 2
            /\ ps # <<>> => ps[1].prefix = "/api/v2"
            /\ Len(ps) = 2 => ~ps[1].ok /\ ps[2].prefix = "/api/v1"
            /\ (ps # <<>> /\ ps[Len(ps)].ok) =>
                 /\ fw_api[d] = ps[Len(ps)].prefix
                 /\ fw_fault[d] # None
            /\ (ps # <<>> /\ ~ps[Len(ps)].ok) =>
                 /\ Len(ps) = 2
                 /\ fw_api[d] = None
                 /\ fw_fault[d] = None
                 /\ FaultReqsOf(d) = <<>>
                 /\ fw_pc = "crashed"
                 /\ fw_exc = "RuntimeError"
                 /\ fw_result[d] = "error"
            /\ ps = <<>> => FaultReqsOf(d) = <<>> /\ fw_api[d] = None
            /\ \A i \in 1..Len(FaultReqsOf(d)) :
                 FaultReqsOf(d)[i].prefix = fw_api[d]

C17_Witness ==
    /\ fw_api["BRANCH_FW"] = "/api/v2"
    /\ fw_api["APP_FW"] = "/api/v1"
    /\ Len(ProbesOf("APP_FW")) = 2
    /\ fw_result["APP_FW"] = "APPLIED"

\* C23: a precondition failure of one device leaves the other device of
\* the stage attempted: when the run has ended and APP_FW lacked its address
\* or credentials, BRANCH_FW was still probed; when SP-Router2 had fewer
\* than two usable interfaces, SP-Router1 was still connected to.
C23_PreconditionFailureIsolated ==
    /\ (/\ fw_pc \in {"done", "crashed"}
        /\ fw_result["APP_FW"] = "error"
        /\ ProbesOf("APP_FW") = <<>>) =>
           ProbesOf("BRANCH_FW") # <<>>
    /\ (/\ rt_pc \in {"done", "crashed"}
        /\ RtHas("SP-Router2", "pick_two_interfaces")) =>
           RtHas("SP-Router1", "connect")

\* The requests of a fault that change the firewall.
Mutating(q) == q.method \in {"POST", "PATCH"}
MutatingReqsOf(d) == SelectSeq(FaultReqsOf(d), Mutating)

\* C25 as stated: a fault ends APPLIED only if every request of its
\* sequence was accepted, and a rejected request is the last request made
\* to that firewall and ends the run with a RuntimeError.
C25_AppliedMeansEveryRequestAccepted ==
    \A d \in FW :
        LET rs == FaultReqsOf(d)
        IN  /\ fw_result[d] = "APPLIED" => \A i \in 1..Len(rs) : rs[i].ok
            /\ \A i \in 1..Len(rs) :
                 ~rs[i].ok => /\ i = Len(rs)
                              /\ fw_result[d] = "error"
                              /\ fw_exc = "RuntimeError"

\* C25, amended: a fault ends APPLIED only if every request that changes
\* the firewall (POST or PATCH) was made and accepted; a rejected one is
\* the last request made to that firewall, the fault ends with a
\* RuntimeError and the run stops. A rejected query need not end the fault.
C25_AppliedMeansEveryChangeAccepted ==
    \A d \in FW :
        LET rs == FaultReqsOf(d)
            ms == MutatingReqsOf(d)
        IN  /\ fw_result[d] = "APPLIED" =>
                 /\ ms # <<>>
                 /\ \A i \in 1..Len(ms) : ms[i].ok
                 /\ fw_fault[d] # "default_gateway_chaos" =>
                      /\ ms[Len(ms)].resource = "/firewall/apply"
                      /\ Len(ms) = 2
            /\ \A i \in 1..Len(rs) :
                 (Mutating(rs[i]) /\ ~rs[i].ok) =>
                     /\ i = Len(rs)
                     /\ fw_result[d] = "error"
                     /\ fw_exc = "RuntimeError"
                     /\ fw_pc = "crashed"

\* A partial rejection: the rule was posted and accepted, the apply was not.
C25_Witness ==
    \E d \in FW :
        LET ms == MutatingReqsOf(d)
        IN  /\ Len(ms) = 2
            /\ ms[1].ok
            /\ ~ms[2].ok
            /\ fw_result[d] = "error"

\* The positions of the listed gateways each pass matches, and the
\* position the pass order selects.
NamedAt == {i \in 1..Len(gateways) : gateways[i].name \in {"WANGW", "wangw"}}
DefaultAt == {i \in 1..Len(gateways) : gateways[i].default}
EnabledAt == {i \in 1..Len(gateways) : ~gateways[i].disabled}
First(S) == CHOOSE i \in S : \A j \in S : i <= j
SelectedAt ==
    IF NamedAt # {} THEN First(NamedAt)
    ELSE IF DefaultAt # {} THEN First(DefaultAt)
    ELSE First(EnabledAt)
GatewayPatches ==
    SelectSeq(fw_reqs, LAMBDA q : q.dev = fw_cur /\ q.method = "PATCH"
                                  /\ q.resource = "/routing/gateway")

\* C27: of the gateways listed, the one disabled is the first named WANGW
\* in any case, else the first flagged default, else the first not
\* disabled; exactly one disable request is sent, for that gateway (by its
\* id, by its name when it has no id); when no pass matches none is sent.
C27_GatewayByPassOrder ==
    gateways # <<>> =>
        IF NamedAt \cup DefaultAt \cup EnabledAt # {}
        THEN /\ Len(GatewayPatches) = 1
             /\ payload =
                  <<[key |-> IF gateways[SelectedAt].id = None
                             THEN "name" ELSE "id",
                     val |-> IF gateways[SelectedAt].id = None
                             THEN gateways[SelectedAt].name
                             ELSE gateways[SelectedAt].id,
                     disabled |-> TRUE, apply |-> TRUE]>>
             /\ fw_result[fw_cur] = "APPLIED" <=> GatewayPatches[1].ok
        ELSE /\ GatewayPatches = <<>>
             /\ payload = <<>>
             /\ fw_result[fw_cur] = "error"

\* A gateway flagged default listed before one named wangw: the named one
\* is disabled.
C27_Witness ==
    /\ Len(gateways) = 2
    /\ gateways[1].name = "LANGW"
    /\ gateways[1].default
    /\ ~gateways[1].disabled
    /\ gateways[2].name = "wangw"
    /\ ~gateways[2].default
    /\ gateways[2].id # None
    /\ payload # <<>>
    /\ payload[1].val = gateways[2].id
    /\ fw_result[fw_cur] = "APPLIED"

(***************************************************************************)
(*               properties of the environment reading (SpecEnv)           *)
(***************************************************************************)
\* The values that stand for "no value": empty, or none/null in any case.
NoneLike == {"", "none", "null", "NULL", " NULL "}

\* C24: no module hands a device session a credential that is empty or is
\* the word none or null: such a value of the environment is treated as
\* absent, in the switch fault module as in the others.
C24_NoneLikeNeverACredential ==
    device # <<>> =>
        \A k \in {"username", "password", "secret"} :
            device[1][k] \notin NoneLike

(***************************************************************************)
(*                 properties of the VLAN plan (SpecVlan)                  *)
(***************************************************************************)
\* A VLAN id the plan may use: in the range, and not the management VLAN.
UsableVlan(v) == v \in VLAN_MIN..MaxVlan /\ v # MGMT_VLAN
Ids(l) == {l[i] : i \in 1..Len(l)}

\* C32: every VLAN id of a plan entry (access VLAN, trunk allowed VLANs,
\* trunk native VLAN) is in the range from VLAN_MIN up and is not the
\* management VLAN; a trunk's allowed list holds exactly the drawn number of
\* distinct ids, between the least and the greatest length, and not its
\* native VLAN; the plan names at most MAX_PORTS ports, all different; and
\* each pass of the drawing loop adds a new id, so that it ends within the
\* drawn number of passes.
C32_VlanPlanWithinBounds ==
    /\ entry # <<>> =>
         LET e == entry[1]
         IN  /\ e.mode = "access" => UsableVlan(e.access_vlan)
             /\ e.mode = "trunk" =>
                  /\ \A i \in 1..Len(e.allowed) : UsableVlan(e.allowed[i])
                  /\ Len(e.allowed) \in TRUNK_ALLOWED_MIN..MaxAllowed
                  /\ Cardinality(Ids(e.allowed)) = Len(e.allowed)
                  /\ vl_pc \in {"for", "done"} =>
                       Len(e.allowed) = allowed_count
                  /\ UsableVlan(e.native)
                  /\ e.native \notin Ids(e.allowed)
    /\ Len(vl_plan) <= MAX_PORTS
    /\ Cardinality({vl_plan[i].port : i \in 1..Len(vl_plan)}) = Len(vl_plan)
    /\ iters = Cardinality(vlans)
    /\ iters <= allowed_count
    /\ \A v \in vlans : UsableVlan(v)
    /\ vl_pc = "native" => iters = allowed_count

\* More eligible ports than MAX_PORTS, a finished plan of MAX_PORTS entries,
\* the last of them a trunk with the longest allowed list.
C32_Witness ==
    /\ vl_pc = "for"
    /\ Len(vl_connected) > MAX_PORTS
    /\ Len(vl_plan) = MAX_PORTS
    /\ entry # <<>>
    /\ entry[1].mode = "trunk"
    /\ Len(entry[1].allowed) = MaxAllowed
    /\ vl_plan[1].mode = "access"

(***************************************************************************)
(*                  properties of switch.py (SpecSwitch)                   *)
(***************************************************************************)
ConnectedPorts == {p \in Ports : portStatus[p] = "connected"}
PortsOf(l) == {l[i].port : i \in 1..Len(l)}
ConfiguredPorts == {sent[i].port : i \in {j \in 1..Len(sent) : sent[j].kind = "interface"}}

\* C5: every port that receives configuration commands is connected and
\* not excluded, and the eligible list holds exactly the connected ports
\* that are not excluded.
C5_TargetsConnectedNotExcluded ==
    /\ ConfiguredPorts \subseteq ConnectedPorts \ EXCLUDE_PORTS
    /\ sw_pc \in {"select", "create_vlans", "configure"} =>
          PortsOf(connected) = ConnectedPorts \ EXCLUDE_PORTS
    /\ PortsOf(plan) \subseteq ConnectedPorts \ EXCLUDE_PORTS

C5_Witness ==
    /\ EXCLUDE_PORTS = {"Gi0/1"}
    /\ {"Gi0/1", "Gi0/2", "Gi0/3"} \subseteq ConnectedPorts
    /\ {"Gi0/2", "Gi0/3"} \subseteq PortsOf(connected)
    /\ "Gi0/1" \notin PortsOf(connected)
    /\ {"Gi0/2", "Gi0/3"} \subseteq ConfiguredPorts

\* C6: the port the operator host is attached to never receives
\* configuration commands, also in a run whose host-port detection raised
\* or found no entry.
C6_HostPortNeverConfigured == hostPort \notin ConfiguredPorts

\* The run got as far as the filter and no connected port is left.
NoEligiblePort ==
    /\ sw_pc = "end"
    /\ interfaces # <<>>
    /\ ConnectedPorts \ EXCLUDE_PORTS = {}

=============================================================================
